---- MODULE Spec2Model ----
(***************************************************************************)
(* A model of MyOwnDb's dynamic-schema engine: the Django views of         *)
(* table_logic (dashboard views.py and the v1 api_views.py), the           *)
(* UserTable / ActivityLog stores of models.py, and the SQL engine the     *)
(* views talk to through django.db.connection.                             *)
(*                                                                         *)
(* Names are sequences of one-character strings, so that strip(),          *)
(* isalnum(), isidentifier() and the physical-name concatenation are       *)
(* computed as the code computes them.  Column types are left out: no      *)
(* handler branches on them except to remap BLOB/DATETIME.  The engine     *)
(* compares identifiers exactly (SQLite's case folding is not modelled).   *)
(***************************************************************************)
EXTENDS Integers, Sequences, FiniteSets, TLC

VARIABLES engine,    \* "sqlite" | "sqlite_old" (no native DROP COLUMN) | "postgresql"
          tables,    \* UserTable rows: <<user, table_name>> -> [real_name, schema]
          db,        \* physical tables: real_name -> [cols, rows]
          log,       \* ActivityLog rows, oldest first
          req,       \* the request handled last
          resp,      \* its response
          executed,  \* the SQL statements it sent to the engine, in order
          accounts,  \* auth User rows: id -> [is_active]
          api_keys,  \* APIKey rows: id -> [user, key_hash, is_active, last_used_at]
          issued,    \* the number of APIKey rows ever created
          clock,     \* timezone.now()
          inflight   \* worker -> the request it is handling or has answered last

\* the credential store, which the table, column and row views never write
auth == <<accounts, api_keys, issued, clock>>

vars ==
  <<engine, tables, db, log, req, resp, executed, accounts, api_keys, issued, clock, inflight>>

(***************************************************************************)
(* Bounds                                                                  *)
(***************************************************************************)
MaxNameLen == 3
MaxLog == 2

(***************************************************************************)
(* Characters and strings                                                  *)
(***************************************************************************)
Letters == {"a", "b", "c", "e", "m", "p", "t"}
Digits == {"0", "1", "2", "3", "4", "5", "6", "7", "8", "9"}
Underscore == "_"
Space == " "
Hyphen == "-"

\* the characters names are drawn from when a validator is explored
Alphabet == {"a", "1", Underscore, Space, Hyphen}

RECURSIVE StringsUpTo(_)
StringsUpTo(n) ==
  IF n = 0 THEN {<<>>}
  ELSE LET shorter == StringsUpTo(n - 1)
       IN shorter \cup {Append(s, ch) : s \in {x \in shorter : Len(x) = n - 1}, ch \in Alphabet}

RECURSIVE LStrip(_)
LStrip(s) == IF s # <<>> /\ Head(s) = Space THEN LStrip(Tail(s)) ELSE s

RECURSIVE RStrip(_)
RStrip(s) ==
  IF s # <<>> /\ s[Len(s)] = Space THEN RStrip(SubSeq(s, 1, Len(s) - 1)) ELSE s

\* str.strip()
Strip(s) == RStrip(LStrip(s))

\* str.replace('_', '')
RemoveUnderscores(s) == SelectSeq(s, LAMBDA ch : ch # Underscore)

\* str.isalnum(): non-empty and every character a letter or a digit
IsAlnum(s) == s # <<>> /\ \A i \in 1..Len(s) : s[i] \in Letters \cup Digits

\* str.isidentifier(): non-empty, no leading digit, letters/digits/underscore
IsIdentifier(s) ==
  /\ s # <<>>
  /\ s[1] \in Letters \cup {Underscore}
  /\ \A i \in 1..Len(s) : s[i] \in Letters \cup Digits \cup {Underscore}

\* CreateTableSerializer.validate_name: the stripped value, or rejection
validate_name(value) ==
  LET v == Strip(value)
  IN IF v = <<>> THEN [ok |-> FALSE, value |-> v]
     ELSE IF ~IsAlnum(RemoveUnderscores(v)) THEN [ok |-> FALSE, value |-> v]
     ELSE [ok |-> TRUE, value |-> v]

\* str(n) of a non-negative integer
DigitChar(d) == <<"0", "1", "2", "3", "4", "5", "6", "7", "8", "9">>[d + 1]

RECURSIVE Decimal(_)
Decimal(n) == IF n < 10 THEN <<DigitChar(n)>> ELSE Append(Decimal(n \div 10), DigitChar(n % 10))

\* f"u{request.user.id}_{table_name}"
RealName(uid, name) == <<"u">> \o Decimal(uid) \o <<Underscore>> \o name

(***************************************************************************)
(* The SQL engine behind django.db.connection.  Every statement runs in    *)
(* autocommit mode: it either takes effect at once or fails and changes    *)
(* nothing.  A statement's result is [ok, db].                             *)
(***************************************************************************)
Null == -1

ColNames(cols) == [i \in 1..Len(cols) |-> cols[i].name]

Range(seq) == {seq[i] : i \in 1..Len(seq)}

HasDuplicates(seq) == \E i, j \in 1..Len(seq) : i < j /\ seq[i] = seq[j]

IndexOf(seq, x) == CHOOSE i \in 1..Len(seq) : seq[i] = x

RemoveAt(seq, k) == [i \in 1..(Len(seq) - 1) |-> IF i < k THEN seq[i] ELSE seq[i + 1]]

Fail(d) == [ok |-> FALSE, db |-> d]

Done(d) == [ok |-> TRUE, db |-> d]

Without(d, rn) == [n \in DOMAIN d \ {rn} |-> d[n]]

\* CREATE TABLE "rn" (cols)
SqlCreateTable(d, rn, cols) ==
  IF \/ rn \in DOMAIN d
     \/ cols = <<>>
     \/ HasDuplicates(ColNames(cols))
     \/ Cardinality({i \in 1..Len(cols) : cols[i].pk}) > 1
  THEN Fail(d)
  ELSE Done(d @@ (rn :> [cols |-> cols, rows |-> <<>>]))

Quote == "\""

FirstQuote(text) ==
  CHOOSE i \in 1..Len(text) : text[i] = Quote /\ \A j \in 1..(i - 1) : text[j] # Quote

\* the text ' AS SELECT * FROM "'
AsSelectFrom ==
  <<" ", "A", "S", " ", "S", "E", "L", "E", "C", "T", " ", "*", " ", "F", "R", "O", "M", " ",
    Quote>>

\* the text '" --', which closes the identifier and comments out what follows
CommentOut == <<Quote, " ", "-", "-">>

\* text that, put between the quotes of CREATE TABLE "..." (cols), closes the
\* identifier early: the engine reads CREATE TABLE "ident" AS SELECT * FROM "src"
Injected(ident, src) == ident \o <<Quote>> \o AsSelectFrom \o src \o CommentOut

\* the existing tables such a text selects from
SelectedFrom(d, text) ==
  {src \in DOMAIN d : text = Injected(SubSeq(text, 1, FirstQuote(text) - 1), src)}

\* CREATE TABLE "text" (cols) as the engine reads it: text is put between the
\* quotes unescaped, so a quote inside it ends the identifier and the rest is
\* SQL; of such texts the CREATE TABLE ... AS SELECT form is followed, any other
\* is taken as a syntax error
SqlCreateTableText(d, text, cols) ==
  IF Quote \notin Range(text) THEN SqlCreateTable(d, text, cols)
  ELSE LET ident == SubSeq(text, 1, FirstQuote(text) - 1)
           sources == SelectedFrom(d, text)
       IN IF sources = {} \/ ident \in DOMAIN d THEN Fail(d)
          ELSE LET t == d[CHOOSE src \in sources : TRUE]
                   copied == [cols |-> [i \in 1..Len(t.cols) |->
                                          [name |-> t.cols[i].name, type |-> t.cols[i].type,
                                           pk |-> FALSE, notnull |-> FALSE, unique |-> FALSE]],
                              rows |-> [i \in 1..Len(t.rows) |->
                                          [rowid |-> i, vals |-> t.rows[i].vals]]]
               IN Done(d @@ (ident :> copied))

\* DROP TABLE IF EXISTS "rn"
SqlDropTableIfExists(d, rn) == Done(Without(d, rn))

\* DROP TABLE "rn"
SqlDropTable(d, rn) == IF rn \in DOMAIN d THEN Done(Without(d, rn)) ELSE Fail(d)

\* ALTER TABLE "rn" ADD COLUMN "name" type
SqlAddColumn(d, rn, col) ==
  IF rn \notin DOMAIN d \/ col.name \in Range(ColNames(d[rn].cols)) THEN Fail(d)
  ELSE Done([d EXCEPT ![rn] =
         [cols |-> Append(@.cols, col),
          rows |-> [i \in 1..Len(@.rows) |->
                     [@.rows[i] EXCEPT !.vals = Append(@, Null)]]]])

\* ALTER TABLE "rn" RENAME COLUMN "old" TO "new"
SqlRenameColumn(eng, d, rn, old, new) ==
  IF rn \notin DOMAIN d THEN Fail(d)
  ELSE LET names == ColNames(d[rn].cols)
       IN IF old \notin Range(names) THEN Fail(d)
          ELSE IF new \in Range(names) /\ new # old THEN Fail(d)
          ELSE IF new = old /\ eng = "postgresql" THEN Fail(d)
          ELSE Done([d EXCEPT ![rn].cols[IndexOf(names, old)].name = new])

\* ALTER TABLE "rn" DROP COLUMN "name"
SqlDropColumn(eng, d, rn, name) ==
  IF eng = "sqlite_old" \/ rn \notin DOMAIN d THEN Fail(d)
  ELSE LET names == ColNames(d[rn].cols)
       IN IF name \notin Range(names) THEN Fail(d)
          ELSE LET k == IndexOf(names, name)
                   col == d[rn].cols[k]
               IN IF eng = "sqlite" /\ (col.pk \/ col.unique \/ Len(names) = 1)
                  THEN Fail(d)
                  ELSE Done([d EXCEPT ![rn] =
                         [cols |-> RemoveAt(@.cols, k),
                          rows |-> [i \in 1..Len(@.rows) |->
                                     [@.rows[i] EXCEPT !.vals = RemoveAt(@, k)]]]])

\* INSERT INTO "dst" (names) SELECT names FROM "src"
SqlInsertSelect(d, dst, src, names) ==
  IF \/ dst \notin DOMAIN d
     \/ src \notin DOMAIN d
     \/ names = <<>>
     \/ ~(Range(names) \subseteq Range(ColNames(d[src].cols)))
     \/ ~(Range(names) \subseteq Range(ColNames(d[dst].cols)))
  THEN Fail(d)
  ELSE LET srcNames == ColNames(d[src].cols)
           dstNames == ColNames(d[dst].cols)
           base == Len(d[dst].rows)
           copied == [i \in 1..Len(d[src].rows) |->
                       [rowid |-> base + i,
                        vals |-> [k \in 1..Len(dstNames) |->
                                   IF dstNames[k] \in Range(names)
                                   THEN d[src].rows[i].vals[IndexOf(srcNames, dstNames[k])]
                                   ELSE Null]]]
       IN Done([d EXCEPT ![dst].rows = @ \o copied])

\* ALTER TABLE "old" RENAME TO "new"
SqlRenameTable(d, old, new) ==
  IF old \notin DOMAIN d \/ new \in DOMAIN d THEN Fail(d)
  ELSE Done(Without(d, old) @@ (new :> d[old]))

(***************************************************************************)
(* Helpers shared by the views                                             *)
(***************************************************************************)
\* col.get(flag) in [True, 'true', 'True', 1, '1'], and the truthiness test
\* `if col.get(flag)`: flags are booleans here, so the two agree
Flag(col, flag) == flag \in DOMAIN col /\ col[flag]

\* [col.get('name') for col in user_table.schema]
SchemaNames(schema) == [i \in 1..Len(schema) |-> schema[i].name]

Stmt(verb, table, cols, ok) == [verb |-> verb, table |-> table, cols |-> cols, ok |-> ok]

\* views.log_activity / api_views.log_api_activity: one ActivityLog row
ActivityRecord(u, action, table_name, source, metadata) ==
  [user |-> u, action |-> action, table_name |-> table_name, source |-> source,
   metadata |-> metadata]

\* metadata=None
NoMetadata == <<>>

log_activity(u, action, table_name, metadata) ==
  Append(log, ActivityRecord(u, action, table_name, "web", metadata))

\* a faulty variant of log_api_activity that writes no row
WithoutRecord(u, action, table_name, metadata) == log

log_api_activity(u, action, table_name, metadata) ==
  Append(log, ActivityRecord(u, action, table_name, "api", metadata))

\* an early return: nothing is executed, nothing is stored
Reject(status) ==
  /\ resp' = [status |-> status]
  /\ executed' = <<>>
  /\ UNCHANGED <<tables, db, log>>

\* a faulty variant of StorageError that writes an activity record for the
\* failed request
StorageErrorLogged(stmts, d) ==
  /\ resp' = [status |-> 500]
  /\ executed' = stmts
  /\ db' = d
  /\ log' = log_activity(req'.user, "ERROR", req'.table, NoMetadata)
  /\ UNCHANGED tables

\* the except branch after a failed statement: what ran before it stays
StorageError(stmts, d) ==
  /\ resp' = [status |-> 500]
  /\ executed' = stmts
  /\ db' = d
  /\ UNCHANGED <<tables, log>>

UserTableRow(real_name, schema) == [real_name |-> real_name, schema |-> schema]

(***************************************************************************)
(* CreateTable                                                             *)
(***************************************************************************)
\* CreateTableSerializer.validate_columns
validate_columns(value) ==
  /\ Len(value) # 0
  /\ \A i \in 1..Len(value) : Strip(value[i].name) # <<>>

\* pk_count = sum(1 for col in columns if col.get('pk') in [...])
pk_count(columns) == Cardinality({i \in 1..Len(columns) : Flag(columns[i], "pk")})

\* col.get('type', 'TEXT').upper()
TypeOf(col) == IF "type" \in DOMAIN col THEN col.type ELSE "TEXT"

\* the dashboard's column definition: PRIMARY KEY alone, or NOT NULL / UNIQUE
DashboardColumnDef(col) ==
  LET is_pk == Flag(col, "pk")
  IN [name |-> Strip(col.name), type |-> TypeOf(col), pk |-> is_pk,
      notnull |-> ~is_pk /\ Flag(col, "notnull"),
      unique |-> ~is_pk /\ Flag(col, "unique")]

\* the v1 column definition: "name" type, no constraint at all
ApiColumnDef(col) ==
  [name |-> Strip(col.name), type |-> TypeOf(col), pk |-> FALSE, notnull |-> FALSE,
   unique |-> FALSE]

\* a faulty variant of CreatedSchema that keeps only each column's name and
\* type, the way PublicTableColumnsView.post stores an added column
NameAndTypeOnly(columns) ==
  [i \in 1..Len(columns) |-> [name |-> columns[i].name, type |-> TypeOf(columns[i]),
                              pk |-> FALSE, notnull |-> FALSE, unique |-> FALSE]]

\* UserTable.objects.create(..., schema=columns): the request's list as sent
CreatedSchema(columns) == columns

\* table_name = models.CharField(max_length=50)
TableNameMaxLength == 50

\* real_name = models.CharField(max_length=100)
RealNameMaxLength == 100

\* whether UserTable.objects.create stores the row: PostgreSQL refuses a value
\* longer than the column, SQLite does not enforce the length
DescriptorFits(eng, table_name, real_name) ==
  \/ eng # "postgresql"
  \/ Len(table_name) <= TableNameMaxLength /\ Len(real_name) <= RealNameMaxLength

\* TableListCreateView.post
CreateTable(u, name, columns) ==
  LET v == validate_name(name)
      table_name == v.value
      real_name == RealName(u, table_name)
      column_defs == [i \in 1..Len(columns) |-> DashboardColumnDef(columns[i])]
      r == SqlCreateTable(db, real_name, column_defs)
      stmts == <<Stmt("CREATE TABLE", real_name, ColNames(column_defs), r.ok)>>
  IN /\ req' = [op |-> "CreateTable", api |-> "dashboard", user |-> u,
                table |-> name, columns |-> columns]
     /\ UNCHANGED <<engine, auth, inflight>>
     /\ IF ~v.ok \/ ~validate_columns(columns) THEN Reject(400)
        ELSE IF <<u, table_name>> \in DOMAIN tables THEN Reject(400)
        ELSE IF pk_count(columns) > 1 THEN Reject(400)
        ELSE IF ~r.ok THEN StorageError(stmts, r.db)
        ELSE IF ~DescriptorFits(engine, table_name, real_name) THEN StorageError(stmts, r.db)
        ELSE /\ db' = r.db
             /\ tables' = tables @@
                  (<<u, table_name>> :> UserTableRow(real_name, CreatedSchema(columns)))
             /\ log' = log_activity(u, "CREATE_TABLE", table_name,
                                    [columns |-> ColNames(columns)])
             /\ executed' = stmts
             /\ resp' = [status |-> 201]

\* col_name = col.get('name', '').strip(); if not col_name.isidentifier(): reject
ApiColumnNameAccepted(name) == IsIdentifier(Strip(name))

\* the v1 loop over columns stops at the first name that is no identifier
ApiColumnsValid(columns) == \A i \in 1..Len(columns) : ApiColumnNameAccepted(columns[i].name)

\* the record of CREATE TABLE "text" (cols) among the statements sent: the table
\* it creates and, when the text selects from a table, that table
CreateStmt(d, text, cols, ok) ==
  IF Quote \notin Range(text) THEN Stmt("CREATE TABLE", text, cols, ok)
  ELSE [verb |-> "CREATE TABLE", table |-> SubSeq(text, 1, FirstQuote(text) - 1),
        cols |-> cols, ok |-> ok, selected |-> SelectedFrom(d, text)]

\* PublicTableListView.post
ApiCreateTable(u, name, columns) ==
  LET real_name == RealName(u, name)
      column_defs == [i \in 1..Len(columns) |-> ApiColumnDef(columns[i])]
      r == SqlCreateTableText(db, real_name, column_defs)
      stmts == <<CreateStmt(db, real_name, ColNames(column_defs), r.ok)>>
  IN /\ req' = [op |-> "CreateTable", api |-> "v1", user |-> u,
                table |-> name, columns |-> columns]
     /\ UNCHANGED <<engine, auth, inflight>>
     /\ IF name = <<>> \/ columns = <<>> THEN Reject(400)
        ELSE IF <<u, name>> \in DOMAIN tables THEN Reject(400)
        ELSE IF ~ApiColumnsValid(columns) THEN Reject(400)
        ELSE IF ~r.ok THEN StorageError(stmts, r.db)
        ELSE IF ~DescriptorFits(engine, name, real_name) THEN StorageError(stmts, r.db)
        ELSE /\ db' = r.db
             /\ tables' = tables @@
                  (<<u, name>> :> UserTableRow(real_name, CreatedSchema(columns)))
             /\ log' = log_api_activity(u, "CREATE_TABLE", name, NoMetadata)
             /\ executed' = stmts
             /\ resp' = [status |-> 201]

(***************************************************************************)
(* DropTable and the schema read                                           *)
(***************************************************************************)
\* a faulty variant of DeleteDescriptor that filters on table_name alone and so
\* deletes the same-named descriptor of every owner
DeleteByTableName(t, key) == [k \in {x \in DOMAIN t : x[2] # key[2]} |-> t[k]]

\* user_table.delete()
DeleteDescriptor(t, key) == [k \in DOMAIN t \ {key} |-> t[k]]

\* TableDetailView.delete
DropTable(u, name) ==
  /\ req' = [op |-> "DropTable", api |-> "dashboard", user |-> u, table |-> name]
  /\ UNCHANGED <<engine, auth, inflight>>
  /\ IF <<u, name>> \notin DOMAIN tables THEN Reject(404)
     ELSE LET real_name == tables[<<u, name>>].real_name
              r == SqlDropTableIfExists(db, real_name)
              stmts == <<Stmt("DROP TABLE IF EXISTS", real_name, <<>>, r.ok)>>
          IN IF ~r.ok THEN StorageError(stmts, r.db)
             ELSE /\ db' = r.db
                  /\ tables' = DeleteDescriptor(tables, <<u, name>>)
                  /\ log' = log_activity(u, "DELETE_TABLE", name, NoMetadata)
                  /\ executed' = stmts
                  /\ resp' = [status |-> 200]

\* the 'columns' of TableSchemaView.get / PublicTableDetailView.get
SchemaOf(t, u, name) == t[<<u, name>>].schema

\* SELECT COUNT(*) FROM "rn", with the views' `except: row_count = 0`
RowCount(d, rn) == IF rn \in DOMAIN d THEN Len(d[rn].rows) ELSE 0

\* TableSchemaView.get and PublicTableDetailView.get
GetSchema(api, u, name) ==
  /\ req' = [op |-> "GetSchema", api |-> api, user |-> u, table |-> name]
  /\ UNCHANGED <<engine, auth, inflight, tables, db, log>>
  /\ IF <<u, name>> \notin DOMAIN tables
     THEN resp' = [status |-> 404] /\ executed' = <<>>
     ELSE LET real_name == tables[<<u, name>>].real_name
          IN /\ executed' = <<Stmt("SELECT COUNT", real_name, <<>>, real_name \in DOMAIN db)>>
             /\ resp' = [status |-> 200, columns |-> SchemaOf(tables, u, name),
                         row_count |-> RowCount(db, real_name)]

(***************************************************************************)
(* AddColumn                                                               *)
(***************************************************************************)
\* "name" type, the request's type defaulting to TEXT
PlainColumnDef(name, type) ==
  [name |-> name, type |-> type, pk |-> FALSE, notnull |-> FALSE, unique |-> FALSE]

\* a successful schema edit: the statements ran, the descriptor is saved,
\* one activity row is written
SaveSchema(key, schema, d, stmts, entry, status) ==
  /\ db' = d
  /\ tables' = [tables EXCEPT ![key].schema = schema]
  /\ log' = entry
  /\ executed' = stmts
  /\ resp' = [status |-> status]

\* schema.append({'name': col_name, 'type': ..., 'pk': False, 'notnull': False, ...})
DashboardAppended(schema, col_name) ==
  Append(schema, [name |-> col_name, type |-> "TEXT", pk |-> FALSE, notnull |-> FALSE,
                  unique |-> FALSE])

\* TableColumnsView.post
AddColumn(u, name, raw_name) ==
  LET key == <<u, name>>
      col_name == Strip(raw_name)
  IN /\ req' = [op |-> "AddColumn", api |-> "dashboard", user |-> u, table |-> name,
                name |-> raw_name]
     /\ UNCHANGED <<engine, auth, inflight>>
     /\ IF key \notin DOMAIN tables THEN Reject(404)
        ELSE IF col_name = <<>> THEN Reject(400)
        ELSE LET ut == tables[key]
                 r == SqlAddColumn(db, ut.real_name, PlainColumnDef(col_name, "TEXT"))
                 stmts == <<Stmt("ADD COLUMN", ut.real_name, <<col_name>>, r.ok)>>
             IN IF ~r.ok THEN StorageError(stmts, r.db)
                ELSE SaveSchema(key, DashboardAppended(ut.schema, col_name), r.db, stmts,
                                log_activity(u, "ADD_COLUMN", name,
                                             [column |-> col_name, type |-> "TEXT"]), 201)

\* user_table.schema.append({'name': col_name, 'type': col_type})
ApiAppended(schema, col_name) == Append(schema, [name |-> col_name, type |-> "TEXT"])

\* `if col_name in existing_cols`
ApiColumnExists(schema, col_name) == col_name \in Range(SchemaNames(schema))

\* PublicTableColumnsView.post
ApiAddColumn(u, name, col_name) ==
  LET key == <<u, name>>
  IN /\ req' = [op |-> "AddColumn", api |-> "v1", user |-> u, table |-> name,
                name |-> col_name]
     /\ UNCHANGED <<engine, auth, inflight>>
     /\ IF key \notin DOMAIN tables THEN Reject(404)
        ELSE IF col_name = <<>> THEN Reject(400)
        ELSE IF ~IsIdentifier(col_name) THEN Reject(400)
        ELSE IF ApiColumnExists(tables[key].schema, col_name) THEN Reject(400)
        ELSE LET ut == tables[key]
                 r == SqlAddColumn(db, ut.real_name, PlainColumnDef(col_name, "TEXT"))
                 stmts == <<Stmt("ADD COLUMN", ut.real_name, <<col_name>>, r.ok)>>
             IN IF ~r.ok THEN StorageError(stmts, r.db)
                ELSE SaveSchema(key, ApiAppended(ut.schema, col_name), r.db, stmts,
                                log_api_activity(u, "ADD_COLUMN", name, NoMetadata), 200)

(***************************************************************************)
(* RenameColumn                                                            *)
(***************************************************************************)
\* for col in schema: if col['name'] == old_name: col['name'] = new_name; break
RenamedSchema(schema, old_name, new_name) ==
  IF old_name \in Range(SchemaNames(schema))
  THEN [schema EXCEPT ![IndexOf(SchemaNames(schema), old_name)].name = new_name]
  ELSE schema

\* a faulty variant of RenameOperands that names the old column twice, so the
\* statement renames nothing while the stored schema takes the new name
SameNameOperands(old_name, new_name) == [old |-> old_name, new |-> old_name]

\* the operands of ALTER TABLE ... RENAME COLUMN "old" TO "new"
RenameOperands(old_name, new_name) == [old |-> old_name, new |-> new_name]

\* TableColumnsView.put
RenameColumn(u, name, raw_old, raw_new) ==
  LET key == <<u, name>>
      old_name == Strip(raw_old)
      new_name == Strip(raw_new)
  IN /\ req' = [op |-> "RenameColumn", api |-> "dashboard", user |-> u, table |-> name,
                old_name |-> raw_old, new_name |-> raw_new]
     /\ UNCHANGED <<engine, auth, inflight>>
     /\ IF key \notin DOMAIN tables THEN Reject(404)
        ELSE IF old_name = <<>> \/ new_name = <<>> THEN Reject(400)
        ELSE IF old_name = new_name THEN Reject(400)
        ELSE LET ut == tables[key]
                 o == RenameOperands(old_name, new_name)
                 r == SqlRenameColumn(engine, db, ut.real_name, o.old, o.new)
                 stmts == <<Stmt("RENAME COLUMN", ut.real_name, <<o.old, o.new>>, r.ok)>>
             IN IF ~r.ok THEN StorageError(stmts, r.db)
                ELSE SaveSchema(key, RenamedSchema(ut.schema, old_name, new_name), r.db,
                                stmts,
                                log_activity(u, "RENAME_COLUMN", name,
                                             [old_name |-> old_name, new_name |-> new_name]),
                                200)

\* `if new_name in existing_cols and new_name != old_name`
ApiNewNameTaken(schema, old_name, new_name) ==
  new_name \in Range(SchemaNames(schema)) /\ new_name # old_name

\* PublicTableColumnsView.put
ApiRenameColumn(u, name, old_name, new_name) ==
  LET key == <<u, name>>
  IN /\ req' = [op |-> "RenameColumn", api |-> "v1", user |-> u, table |-> name,
                old_name |-> old_name, new_name |-> new_name]
     /\ UNCHANGED <<engine, auth, inflight>>
     /\ IF key \notin DOMAIN tables THEN Reject(404)
        ELSE IF old_name = <<>> \/ new_name = <<>> THEN Reject(400)
        ELSE IF ~IsIdentifier(new_name) THEN Reject(400)
        ELSE IF old_name \notin Range(SchemaNames(tables[key].schema)) THEN Reject(404)
        ELSE IF ApiNewNameTaken(tables[key].schema, old_name, new_name) THEN Reject(400)
        ELSE LET ut == tables[key]
                 o == RenameOperands(old_name, new_name)
                 r == SqlRenameColumn(engine, db, ut.real_name, o.old, o.new)
                 stmts == <<Stmt("RENAME COLUMN", ut.real_name, <<o.old, o.new>>, r.ok)>>
             IN IF ~r.ok THEN StorageError(stmts, r.db)
                ELSE SaveSchema(key, RenamedSchema(ut.schema, old_name, new_name), r.db,
                                stmts, log_api_activity(u, "RENAME_COLUMN", name, NoMetadata), 200)

(***************************************************************************)
(* DropColumn                                                              *)
(***************************************************************************)
\* [c for c in schema if c['name'] != col_name]
RemainingColumns(schema, col_name) == SelectSeq(schema, LAMBDA c : c.name # col_name)

\* `if col.get('name') == col_name and col.get('pk')`
IsPrimaryKeyColumn(schema, col_name) ==
  \E i \in 1..Len(schema) : schema[i].name = col_name /\ Flag(schema[i], "pk")

\* TableColumnsView.delete
DropColumn(u, name, raw_name) ==
  LET key == <<u, name>>
      col_name == Strip(raw_name)
  IN /\ req' = [op |-> "DropColumn", api |-> "dashboard", user |-> u, table |-> name,
                name |-> raw_name]
     /\ UNCHANGED <<engine, auth, inflight>>
     /\ IF key \notin DOMAIN tables THEN Reject(404)
        ELSE IF col_name = <<>> THEN Reject(400)
        ELSE IF IsPrimaryKeyColumn(tables[key].schema, col_name) THEN Reject(400)
        ELSE LET ut == tables[key]
                 r == SqlDropColumn(engine, db, ut.real_name, col_name)
                 stmts == <<Stmt("DROP COLUMN", ut.real_name, <<col_name>>, r.ok)>>
             IN IF ~r.ok THEN StorageError(stmts, r.db)
                ELSE SaveSchema(key, RemainingColumns(ut.schema, col_name), r.db, stmts,
                                log_activity(u, "DELETE_COLUMN", name, [column |-> col_name]), 200)

\* temp_name = f"{user_table.real_name}_temp"
TempName(real_name) == real_name \o <<"_", "t", "e", "m", "p">>

\* a faulty variant of RebuildWithout that leaves out the copy: the temp table is
\* created, the original dropped and the empty temp table renamed into its place
RebuildWithoutCopy(d, real_name, remaining) ==
  LET names == SchemaNames(remaining)
      temp_name == TempName(real_name)
      c1 == SqlCreateTable(d, temp_name, [i \in 1..Len(remaining) |->
                                              [name |-> names[i], type |-> TypeOf(remaining[i]),
                                               pk |-> FALSE, notnull |-> FALSE,
                                               unique |-> FALSE]])
      c3 == SqlDropTable(c1.db, real_name)
      c4 == SqlRenameTable(c3.db, temp_name, real_name)
      s1 == <<Stmt("CREATE TABLE", temp_name, names, c1.ok)>>
      s3 == Append(s1, Stmt("DROP TABLE", real_name, <<>>, c3.ok))
      s4 == Append(s3, Stmt("RENAME TABLE", temp_name, <<>>, c4.ok))
  IN IF ~c1.ok THEN [ok |-> FALSE, db |-> c1.db, stmts |-> s1]
     ELSE IF ~c3.ok THEN [ok |-> FALSE, db |-> c3.db, stmts |-> s3]
     ELSE [ok |-> c4.ok, db |-> c4.db, stmts |-> s4]

\* the rebuild fallback of PublicTableColumnsView.delete: four statements, each
\* run only if the one before it succeeded; the result is [ok, db, stmts]
RebuildWithout(d, real_name, remaining) ==
  LET names == SchemaNames(remaining)
      temp_name == TempName(real_name)
      c1 == SqlCreateTable(d, temp_name, [i \in 1..Len(remaining) |->
                                              PlainColumnDef(names[i], TypeOf(remaining[i]))])
      c2 == SqlInsertSelect(c1.db, temp_name, real_name, names)
      c3 == SqlDropTable(c2.db, real_name)
      c4 == SqlRenameTable(c3.db, temp_name, real_name)
      s1 == <<Stmt("CREATE TABLE", temp_name, names, c1.ok)>>
      s2 == Append(s1, Stmt("INSERT SELECT", temp_name, names, c2.ok))
      s3 == Append(s2, Stmt("DROP TABLE", real_name, <<>>, c3.ok))
      s4 == Append(s3, Stmt("RENAME TABLE", temp_name, <<>>, c4.ok))
  IN IF ~c1.ok THEN [ok |-> FALSE, db |-> c1.db, stmts |-> s1]
     ELSE IF ~c2.ok THEN [ok |-> FALSE, db |-> c2.db, stmts |-> s2]
     ELSE IF ~c3.ok THEN [ok |-> FALSE, db |-> c3.db, stmts |-> s3]
     ELSE [ok |-> c4.ok, db |-> c4.db, stmts |-> s4]

\* PublicTableColumnsView.delete
ApiDropColumn(u, name, col_name) ==
  LET key == <<u, name>>
  IN /\ req' = [op |-> "DropColumn", api |-> "v1", user |-> u, table |-> name,
                name |-> col_name]
     /\ UNCHANGED <<engine, auth, inflight>>
     /\ IF key \notin DOMAIN tables THEN Reject(404)
        ELSE IF col_name = <<>> THEN Reject(400)
        ELSE IF col_name \notin Range(SchemaNames(tables[key].schema)) THEN Reject(404)
        ELSE IF Len(tables[key].schema) <= 1 THEN Reject(400)
        ELSE LET ut == tables[key]
                 native == SqlDropColumn(engine, db, ut.real_name, col_name)
                 first == <<Stmt("DROP COLUMN", ut.real_name, <<col_name>>, native.ok)>>
                 rebuilt == RebuildWithout(db, ut.real_name,
                                           RemainingColumns(ut.schema, col_name))
                 entry == log_api_activity(u, "DELETE_COLUMN", name, NoMetadata)
                 schema == RemainingColumns(ut.schema, col_name)
             IN IF native.ok THEN SaveSchema(key, schema, native.db, first, entry, 200)
                ELSE IF engine = "postgresql" THEN StorageError(first, native.db)
                ELSE IF rebuilt.ok
                     THEN SaveSchema(key, schema, rebuilt.db, first \o rebuilt.stmts, entry, 200)
                     ELSE StorageError(first \o rebuilt.stmts, rebuilt.db)

(***************************************************************************)
(* Rows                                                                    *)
(***************************************************************************)
RowidKey == <<"r", "o", "w", "i", "d">>

MaxRowid(rows) ==
  IF rows = <<>> THEN 0
  ELSE CHOOSE m \in {rows[i].rowid : i \in 1..Len(rows)} :
         \A i \in 1..Len(rows) : rows[i].rowid <= m

\* INSERT INTO "rn" (keys of data) VALUES (values of data); [ok, db, id]
SqlInsert(eng, d, rn, data) ==
  IF rn \notin DOMAIN d \/ DOMAIN data = {}
  THEN [ok |-> FALSE, db |-> d, id |-> Null]
  ELSE LET t == d[rn]
           names == ColNames(t.cols)
           n == Len(names)
           IntegerPk(k) == t.cols[k].pk /\ t.cols[k].type = "INTEGER"
           given(k) == IF names[k] \in DOMAIN data THEN data[names[k]] ELSE Null
           next == MaxRowid(t.rows) + 1
           vals == [k \in 1..n |-> IF IntegerPk(k) /\ given(k) = Null THEN next ELSE given(k)]
           rowid == IF eng # "postgresql" /\ \E k \in 1..n : IntegerPk(k)
                    THEN vals[CHOOSE k \in 1..n : IntegerPk(k)]
                    ELSE next
           violated ==
             \/ \E k \in 1..n : /\ vals[k] = Null
                                 /\ (t.cols[k].notnull \/ (t.cols[k].pk /\ eng = "postgresql"))
             \/ \E k \in 1..n : /\ vals[k] # Null
                                 /\ (t.cols[k].pk \/ t.cols[k].unique)
                                 /\ \E i \in 1..Len(t.rows) : t.rows[i].vals[k] = vals[k]
       IN IF ~(DOMAIN data \subseteq Range(names)) \/ violated
          THEN [ok |-> FALSE, db |-> d, id |-> Null]
          ELSE [ok |-> TRUE,
                db |-> [d EXCEPT ![rn].rows = Append(@, [rowid |-> rowid, vals |-> vals])],
                id |-> rowid]

\* pk_col = 'id'; for col in schema: if col.get('pk'): pk_col = col.get('name'); break
PkCol(schema) ==
  IF \E i \in 1..Len(schema) : Flag(schema[i], "pk")
  THEN schema[CHOOSE i \in 1..Len(schema) :
                /\ Flag(schema[i], "pk")
                /\ \A j \in 1..(i - 1) : ~Flag(schema[j], "pk")].name
  ELSE <<"i", "d">>

\* TableRowsView.post (dashboard) and PublicTableRowsView.post (v1)
InsertRow(api, u, name, data) ==
  LET key == <<u, name>>
  IN /\ req' = [op |-> "InsertRow", api |-> api, user |-> u, table |-> name, data |-> data]
     /\ UNCHANGED <<engine, auth, inflight, tables>>
     /\ IF key \notin DOMAIN tables THEN Reject(404)
        ELSE IF api = "v1" /\ DOMAIN data = {} THEN Reject(400)
        ELSE LET ut == tables[key]
                 r == SqlInsert(engine, db, ut.real_name, data)
                 pk_col == PkCol(ut.schema)
                 returning == engine = "postgresql"
                 \* RETURNING "pk_col" fails the whole statement if there is no such column
                 ok == r.ok /\ (returning => pk_col \in Range(ColNames(db[ut.real_name].cols)))
                 stmts == <<Stmt("INSERT", ut.real_name,
                                 IF returning THEN <<pk_col>> ELSE <<>>, ok)>>
                 new_row_id ==
                   IF returning
                   THEN LET t == r.db[ut.real_name]
                        IN t.rows[Len(t.rows)].vals[IndexOf(ColNames(t.cols), pk_col)]
                   ELSE r.id
             IN IF ~ok THEN StorageError(stmts, db)
                ELSE /\ db' = r.db
                     /\ log' = LET metadata == [row_id |-> new_row_id, data |-> data]
                                IN IF api = "v1"
                                   THEN log_api_activity(u, "INSERT_ROW", name, metadata)
                                   ELSE log_activity(u, "INSERT_ROW", name, metadata)
                     /\ executed' = stmts
                     /\ resp' = [status |-> 201, id |-> new_row_id]
                     /\ UNCHANGED tables

\* [dict(zip(columns, row)) for row in cursor.fetchall()] after SELECT *, rowid on
\* SQLite (the rowid column is reported under the INTEGER PRIMARY KEY's name when
\* the table has one) and after the dashboard's SELECT * on PostgreSQL
RowMappings(eng, d, rn) ==
  LET t == d[rn]
      names == ColNames(t.cols)
      HasAlias == \/ eng = "postgresql"
                  \/ \E k \in 1..Len(names) : t.cols[k].pk /\ t.cols[k].type = "INTEGER"
      keys == Range(names) \cup (IF HasAlias THEN {} ELSE {RowidKey})
  IN [i \in 1..Len(t.rows) |->
       [c \in keys |-> IF c = RowidKey /\ ~HasAlias
                       THEN t.rows[i].rowid
                       ELSE t.rows[i].vals[IndexOf(names, c)]]]

(***************************************************************************)
(* Single rows: TableRowDetailView and PublicTableRowDetailView            *)
(***************************************************************************)
\* the positions of the rows WHERE "where" = id selects; rowid is the engine's
\* row identifier on SQLite unless the table declares a column of that name
Targets(t, where, id) ==
  LET names == ColNames(t.cols)
  IN IF where = RowidKey /\ RowidKey \notin Range(names)
     THEN {i \in 1..Len(t.rows) : t.rows[i].rowid = id}
     ELSE {i \in 1..Len(t.rows) : t.rows[i].vals[IndexOf(names, where)] = id}

\* whether the engine knows the column a WHERE clause names
WhereKnown(eng, t, where) ==
  \/ where \in Range(ColNames(t.cols))
  \/ where = RowidKey /\ eng # "postgresql"

\* UPDATE "rn" SET (keys of data) = (values of data) WHERE "where" = id;
\* [ok, db, count] with count the cursor's rowcount
SqlUpdate(eng, d, rn, data, where, id) ==
  IF rn \notin DOMAIN d \/ DOMAIN data = {} THEN [ok |-> FALSE, db |-> d, count |-> 0]
  ELSE LET t == d[rn]
           names == ColNames(t.cols)
           n == Len(names)
       IN IF ~(DOMAIN data \subseteq Range(names)) \/ ~WhereKnown(eng, t, where)
          THEN [ok |-> FALSE, db |-> d, count |-> 0]
          ELSE LET hit == Targets(t, where, id)
                   IntegerPk(k) == t.cols[k].pk /\ t.cols[k].type = "INTEGER"
                   set(i) == [k \in 1..n |-> IF names[k] \in DOMAIN data
                                             THEN data[names[k]] ELSE t.rows[i].vals[k]]
                   rows == [i \in 1..Len(t.rows) |->
                             IF i \notin hit THEN t.rows[i]
                             ELSE [rowid |-> IF eng # "postgresql" /\ \E k \in 1..n : IntegerPk(k)
                                             THEN set(i)[CHOOSE k \in 1..n : IntegerPk(k)]
                                             ELSE t.rows[i].rowid,
                                   vals |-> set(i)]]
                   violated ==
                     \E i \in hit, k \in 1..n :
                       \/ rows[i].vals[k] = Null /\ (t.cols[k].notnull \/ t.cols[k].pk)
                       \/ /\ rows[i].vals[k] # Null
                          /\ (t.cols[k].pk \/ t.cols[k].unique)
                          /\ \E j \in 1..Len(rows) : j # i /\ rows[j].vals[k] = rows[i].vals[k]
               IN IF violated THEN [ok |-> FALSE, db |-> d, count |-> 0]
                  ELSE [ok |-> TRUE, db |-> [d EXCEPT ![rn].rows = rows],
                        count |-> Cardinality(hit)]

\* DELETE FROM "rn" WHERE "where" = id; [ok, db, count]
SqlDelete(eng, d, rn, where, id) ==
  IF rn \notin DOMAIN d THEN [ok |-> FALSE, db |-> d, count |-> 0]
  ELSE LET t == d[rn]
       IN IF ~WhereKnown(eng, t, where) THEN [ok |-> FALSE, db |-> d, count |-> 0]
          ELSE LET hit == Targets(t, where, id)
                   kept == SelectSeq([i \in 1..Len(t.rows) |-> i], LAMBDA i : i \notin hit)
               IN [ok |-> TRUE,
                   db |-> [d EXCEPT ![rn].rows = [j \in 1..Len(kept) |-> t.rows[kept[j]]]],
                   count |-> Cardinality(hit)]

\* use_rowid = str(row_id).isdigit(), and never on an engine other than SQLite
UseRowid(eng) == eng # "postgresql"

\* `if pk_col.lower() != 'rowid'`
RetryByPk(pk_col) == pk_col # RowidKey

\* TableRowDetailView.put
UpdateRow(u, name, row_id, data) ==
  LET key == <<u, name>>
  IN /\ req' = [op |-> "UpdateRow", api |-> "dashboard", user |-> u, table |-> name,
                row_id |-> row_id, data |-> data]
     /\ UNCHANGED <<engine, auth, inflight, tables>>
     /\ IF key \notin DOMAIN tables THEN Reject(404)
        ELSE LET ut == tables[key]
                 use_rowid == UseRowid(engine)
                 pk_col == PkCol(ut.schema)
                 where == IF use_rowid THEN RowidKey ELSE pk_col
                 first == SqlUpdate(engine, db, ut.real_name, data, where, row_id)
                 s1 == <<Stmt("UPDATE", ut.real_name, <<where>>, first.ok)>>
                 retried == first.ok /\ first.count = 0 /\ use_rowid /\ RetryByPk(pk_col)
                 retry == SqlUpdate(engine, first.db, ut.real_name, data, pk_col, row_id)
                 s2 == Append(s1, Stmt("UPDATE", ut.real_name, <<pk_col>>, retry.ok))
             IN IF ~first.ok THEN StorageError(s1, first.db)
                ELSE IF retried /\ ~retry.ok THEN StorageError(s2, retry.db)
                ELSE /\ db' = IF retried THEN retry.db ELSE first.db
                     /\ executed' = IF retried THEN s2 ELSE s1
                     /\ log' = log_activity(u, "UPDATE_ROW", name,
                                            [row_id |-> row_id, updated_fields |-> DOMAIN data])
                     /\ resp' = [status |-> 200]

\* TableRowDetailView.delete
DeleteRow(u, name, row_id) ==
  LET key == <<u, name>>
  IN /\ req' = [op |-> "DeleteRow", api |-> "dashboard", user |-> u, table |-> name,
                row_id |-> row_id]
     /\ UNCHANGED <<engine, auth, inflight, tables>>
     /\ IF key \notin DOMAIN tables THEN Reject(404)
        ELSE LET ut == tables[key]
                 use_rowid == UseRowid(engine)
                 pk_col == PkCol(ut.schema)
                 where == IF use_rowid THEN RowidKey ELSE pk_col
                 first == SqlDelete(engine, db, ut.real_name, where, row_id)
                 s1 == <<Stmt("DELETE", ut.real_name, <<where>>, first.ok)>>
                 retried == first.ok /\ first.count = 0 /\ use_rowid /\ RetryByPk(pk_col)
                 retry == SqlDelete(engine, first.db, ut.real_name, pk_col, row_id)
                 s2 == Append(s1, Stmt("DELETE", ut.real_name, <<pk_col>>, retry.ok))
                 deleted_count == IF retried THEN retry.count ELSE first.count
             IN IF ~first.ok THEN StorageError(s1, first.db)
                ELSE IF retried /\ ~retry.ok THEN StorageError(s2, retry.db)
                ELSE /\ db' = IF retried THEN retry.db ELSE first.db
                     /\ executed' = IF retried THEN s2 ELSE s1
                     /\ log' = log_activity(u, "DELETE_ROW", name, [row_id |-> row_id])
                     /\ resp' = [status |-> 200, affected |-> deleted_count]

\* PublicTableRowDetailView.get
ApiGetRow(u, name, row_id) ==
  LET key == <<u, name>>
  IN /\ req' = [op |-> "GetRow", api |-> "v1", user |-> u, table |-> name,
                row_id |-> row_id]
     /\ UNCHANGED <<engine, auth, inflight, tables, db, log>>
     /\ IF key \notin DOMAIN tables THEN resp' = [status |-> 404] /\ executed' = <<>>
        ELSE LET ut == tables[key]
                 ok == /\ ut.real_name \in DOMAIN db
                       /\ WhereKnown(engine, db[ut.real_name], RowidKey)
                 found == Targets(db[ut.real_name], RowidKey, row_id)
                 maps == RowMappings(engine, db, ut.real_name)
             IN /\ executed' = <<Stmt("SELECT", ut.real_name, <<RowidKey>>, ok)>>
                /\ IF ~ok THEN resp' = [status |-> 500]
                   ELSE IF found = {} THEN resp' = [status |-> 404]
                   ELSE resp' = [status |-> 200, row |-> maps[CHOOSE i \in found : TRUE]]

\* PublicTableRowDetailView.put
ApiUpdateRow(u, name, row_id, data) ==
  LET key == <<u, name>>
  IN /\ req' = [op |-> "UpdateRow", api |-> "v1", user |-> u, table |-> name,
                row_id |-> row_id, data |-> data]
     /\ UNCHANGED <<engine, auth, inflight, tables>>
     /\ IF key \notin DOMAIN tables THEN Reject(404)
        ELSE IF DOMAIN data = {} THEN Reject(400)
        ELSE LET ut == tables[key]
                 r == SqlUpdate(engine, db, ut.real_name, data, RowidKey, row_id)
                 stmts == <<Stmt("UPDATE", ut.real_name, <<RowidKey>>, r.ok)>>
             IN IF ~r.ok THEN StorageError(stmts, r.db)
                ELSE IF r.count = 0
                     THEN /\ resp' = [status |-> 404]
                          /\ executed' = stmts
                          /\ UNCHANGED <<db, log>>
                ELSE /\ db' = r.db
                     /\ executed' = stmts
                     /\ log' = log_api_activity(u, "UPDATE_ROW", name,
                                                [row_id |-> row_id, updated_fields |-> DOMAIN data])
                     /\ resp' = [status |-> 200]

\* PublicTableRowDetailView.delete
ApiDeleteRow(u, name, row_id) ==
  LET key == <<u, name>>
  IN /\ req' = [op |-> "DeleteRow", api |-> "v1", user |-> u, table |-> name,
                row_id |-> row_id]
     /\ UNCHANGED <<engine, auth, inflight, tables>>
     /\ IF key \notin DOMAIN tables THEN Reject(404)
        ELSE LET ut == tables[key]
                 r == SqlDelete(engine, db, ut.real_name, RowidKey, row_id)
                 stmts == <<Stmt("DELETE", ut.real_name, <<RowidKey>>, r.ok)>>
             IN IF ~r.ok THEN StorageError(stmts, r.db)
                ELSE IF r.count = 0
                     THEN /\ resp' = [status |-> 404]
                          /\ executed' = stmts
                          /\ UNCHANGED <<db, log>>
                ELSE /\ db' = r.db
                     /\ executed' = stmts
                     /\ log' = log_api_activity(u, "DELETE_ROW", name, [row_id |-> row_id])
                     /\ resp' = [status |-> 200]

(***************************************************************************)
(* Row listing: TableRowsView.get and PublicTableRowsView.get              *)
(***************************************************************************)
\* a query parameter: absent, a decimal integer, or text that int() refuses
Absent == [kind |-> "absent", val |-> 0]

IntParam(n) == [kind |-> "int", val |-> n]

TextParam == [kind |-> "text", val |-> 0]

\* int(request.query_params.get(key, default)): [ok, val], ok false on ValueError
ParseInt(param, default) ==
  IF param.kind = "absent" THEN [ok |-> TRUE, val |-> default]
  ELSE IF param.kind = "int" THEN [ok |-> TRUE, val |-> param.val]
  ELSE [ok |-> FALSE, val |-> 0]

Min(a, b) == IF a < b THEN a ELSE b

\* limit = min(int(request.query_params.get('limit', 25)), 100)
EffectiveLimit(limit) == Min(limit, 100)

\* (total + limit - 1) // limit if limit > 0 else 0
TotalPages(total, limit) == IF limit > 0 THEN (total + limit - 1) \div limit ELSE 0

\* the suffixes of the v1 operators map
Operators == {"", "gt", "lt", "gte", "lte", "ne", "contains", "icontains"}

\* text LIKE '%pattern%'
Contains(text, pattern) ==
  \E k \in 0..(Len(text) - Len(pattern)) : SubSeq(text, k + 1, k + Len(pattern)) = pattern

\* "col" op value, evaluated on a stored value; a comparison with NULL selects nothing
Compare(op, stored, value) ==
  IF stored = Null THEN FALSE
  ELSE CASE op = "" -> stored = value
         [] op = "gt" -> stored > value
         [] op = "lt" -> stored < value
         [] op = "gte" -> stored >= value
         [] op = "lte" -> stored <= value
         [] op = "ne" -> stored # value
         [] OTHER -> Contains(Decimal(stored), Decimal(value))

\* the positions of idxs ordered by keyOf, ties kept in the order of idxs
OrderBy(idxs, keyOf) ==
  LET n == Len(idxs)
      Before(p, q) == \/ keyOf[idxs[p]] < keyOf[idxs[q]]
                      \/ (keyOf[idxs[p]] = keyOf[idxs[q]] /\ p < q)
      rank(p) == 1 + Cardinality({q \in 1..n : Before(q, p)})
  IN [r \in 1..n |-> idxs[CHOOSE p \in 1..n : rank(p) = r]]

\* the row positions of a table in the order a full scan visits them
ScanOrder(t) ==
  OrderBy([i \in 1..Len(t.rows) |-> i], [i \in 1..Len(t.rows) |-> t.rows[i].rowid])

\* LIMIT limit OFFSET offset on SQLite: a negative limit is no limit, a negative
\* offset is no offset
PageOf(seq, limit, offset) ==
  LET off == IF offset < 0 THEN 0 ELSE offset
      last == IF limit < 0 THEN Len(seq) ELSE Min(Len(seq), off + limit)
  IN SubSeq(seq, off + 1, last)

\* a faulty variant of ApiRecognised that checks the column only, so that an
\* unknown suffix still adds a predicate
AnySuffixRecognised(schema_columns, filters) ==
  {f \in filters : f.col \in Range(schema_columns)}

\* the filter entries the v1 view turns into predicates
ApiRecognised(schema_columns, filters) ==
  {f \in filters : f.col \in Range(schema_columns) /\ f.op \in Operators}

\* the filter entries the dashboard view turns into predicates: the keys that are
\* exactly a column name, each matched with LIKE '%value%'
DashboardRecognised(schema_columns, filters) ==
  {[col |-> f.col, op |-> "contains", val |-> f.val] :
     f \in {g \in filters : g.col \in Range(schema_columns) /\ g.op = ""}}

\* the columns the WHERE and ORDER BY clauses name
ReferencedColumns(schema_columns, search, preds, sort) ==
  (IF search.kind = "absent" THEN {} ELSE Range(schema_columns))
    \cup {f.col : f \in preds}
    \cup (IF sort # <<>> /\ sort \in Range(schema_columns) THEN {sort} ELSE {})

\* the positions of the rows the WHERE clause selects, in scan order
Selected(t, schema_columns, search, preds) ==
  LET names == ColNames(t.cols)
      value(i, c) == t.rows[i].vals[IndexOf(names, c)]
      keep(i) ==
        /\ search.kind = "absent" \/
             \E k \in 1..Len(schema_columns) :
               /\ value(i, schema_columns[k]) # Null
               /\ Contains(Decimal(value(i, schema_columns[k])), Decimal(search.val))
        /\ \A f \in preds : Compare(f.op, value(i, f.col), f.val)
  IN SelectSeq(ScanOrder(t), keep)

\* ORDER BY "sort" ASC|DESC when sort is a declared column; NULLs sort lowest on
\* SQLite and highest on PostgreSQL
Ordered(eng, t, idxs, schema_columns, sort, order) ==
  IF sort = <<>> \/ sort \notin Range(schema_columns) THEN idxs
  ELSE LET k == IndexOf(ColNames(t.cols), sort)
           raw(i) == t.rows[i].vals[k]
           top == 1 + (CHOOSE m \in {raw(j) : j \in 1..Len(t.rows)} :
                         \A j \in 1..Len(t.rows) : raw(j) <= m)
           asc(i) == IF raw(i) = Null /\ eng = "postgresql" THEN top ELSE raw(i)
       IN OrderBy(idxs, [i \in 1..Len(t.rows) |-> IF order = "desc" THEN 0 - asc(i) ELSE asc(i)])

\* a SELECT with its LIMIT and OFFSET
SelectStmt(table, cols, ok, limit, offset) ==
  [verb |-> "SELECT", table |-> table, cols |-> cols, ok |-> ok,
   limit |-> limit, offset |-> offset]

SetToSeq(S) == CHOOSE seq \in [1..Cardinality(S) -> S] : Range(seq) = S

\* PublicTableRowsView.get
ApiListRows(u, name, q) ==
  LET key == <<u, name>>
      page == ParseInt(q.page, 1)
      limit == ParseInt(q.limit, 25)
      lim == EffectiveLimit(limit.val)
      offset == ParseInt(q.offset, (page.val - 1) * lim)
  IN /\ req' = [op |-> "ListRows", api |-> "v1", user |-> u, table |-> name, query |-> q]
     /\ UNCHANGED <<engine, auth, inflight, tables, db, log>>
     /\ IF key \notin DOMAIN tables THEN resp' = [status |-> 404] /\ executed' = <<>>
        ELSE IF ~page.ok \/ ~limit.ok \/ ~offset.ok
             THEN resp' = [status |-> 500] /\ executed' = <<>>
        ELSE LET ut == tables[key]
                 schema_columns == SchemaNames(ut.schema)
                 preds == ApiRecognised(schema_columns, q.filters)
                 cols == ReferencedColumns(schema_columns, q.search, preds, q.sort)
                 known == /\ ut.real_name \in DOMAIN db
                          /\ cols \subseteq Range(ColNames(db[ut.real_name].cols))
                 \* SELECT *, rowid: PostgreSQL has no rowid column
                 rows_ok == /\ known
                            /\ engine # "postgresql" \/
                                 RowidKey \in Range(ColNames(db[ut.real_name].cols))
                 count == Stmt("SELECT COUNT", ut.real_name, SetToSeq(cols), known)
                 select == SelectStmt(ut.real_name, SetToSeq(cols), rows_ok, lim, offset.val)
             IN IF ~known THEN resp' = [status |-> 500] /\ executed' = <<count>>
                ELSE IF ~rows_ok THEN resp' = [status |-> 500] /\ executed' = <<count, select>>
                ELSE LET t == db[ut.real_name]
                         hits == Selected(t, schema_columns, q.search, preds)
                         sorted == Ordered(engine, t, hits, schema_columns, q.sort, q.order)
                         shown == PageOf(sorted, lim, offset.val)
                         maps == RowMappings(engine, db, ut.real_name)
                     IN /\ executed' = <<count, select>>
                        /\ resp' = [status |-> 200,
                                    rows |-> [i \in 1..Len(shown) |-> maps[shown[i]]],
                                    total |-> Len(hits),
                                    page |-> page.val,
                                    limit |-> lim,
                                    total_pages |-> TotalPages(Len(hits), lim)]

\* TableRowsView.get
ListRows(u, name, q) ==
  LET key == <<u, name>>
      page == ParseInt(q.page, 1)
      page_size == ParseInt(q.page_size, 25)
      offset == (page.val - 1) * page_size.val
  IN /\ req' = [op |-> "ListRows", api |-> "dashboard", user |-> u, table |-> name,
                query |-> q]
     /\ UNCHANGED <<engine, auth, inflight, tables, db, log>>
     /\ IF key \notin DOMAIN tables THEN resp' = [status |-> 404] /\ executed' = <<>>
        ELSE IF ~page.ok \/ ~page_size.ok
             THEN resp' = [status |-> 500] /\ executed' = <<>>
        ELSE LET ut == tables[key]
                 schema_columns == SchemaNames(ut.schema)
                 preds == DashboardRecognised(schema_columns, q.filters)
                 cols == ReferencedColumns(schema_columns, q.search, preds, q.sort)
                 \* the dashboard writes its placeholders as ?, which only SQLite reads
                 known == /\ ut.real_name \in DOMAIN db
                          /\ cols \subseteq Range(ColNames(db[ut.real_name].cols))
                          /\ engine = "postgresql" => (q.search.kind = "absent" /\ preds = {})
                 rows_ok == /\ known
                            /\ engine = "postgresql" => (page_size.val >= 0 /\ offset >= 0)
                 count == Stmt("SELECT COUNT", ut.real_name, SetToSeq(cols), known)
                 select == SelectStmt(ut.real_name, SetToSeq(cols), rows_ok,
                                      page_size.val, offset)
             IN IF ~known THEN resp' = [status |-> 500] /\ executed' = <<count>>
                ELSE IF ~rows_ok THEN resp' = [status |-> 500] /\ executed' = <<count, select>>
                ELSE LET t == db[ut.real_name]
                         hits == Selected(t, schema_columns, q.search, preds)
                         sorted == Ordered(engine, t, hits, schema_columns, q.sort, q.order)
                         shown == PageOf(sorted, page_size.val, offset)
                         maps == RowMappings(engine, db, ut.real_name)
                     IN /\ executed' = <<count, select>>
                        /\ resp' = [status |-> 200,
                                    rows |-> [i \in 1..Len(shown) |-> maps[shown[i]]],
                                    total |-> Len(hits),
                                    page |-> page.val,
                                    page_size |-> page_size.val]

(***************************************************************************)
(* Export and import: TableExportView.get and TableImportView.post         *)
(***************************************************************************)
\* dict(zip(columns, row)): pairs stop at the shorter operand and a repeated key
\* keeps its last value
ZipDict(columns, row) ==
  LET n == Min(Len(columns), Len(row))
  IN [c \in {columns[k] : k \in 1..n} |->
       row[CHOOSE k \in 1..n : columns[k] = c /\ \A j \in (k + 1)..n : columns[j] # c]]

\* rows_data of the export: SELECT * zipped with the stored column names
ExportedRows(schema, t) ==
  LET order == ScanOrder(t)
  IN [i \in 1..Len(order) |-> ZipDict(SchemaNames(schema), t.rows[order[i]].vals)]

\* TableExportView.get with format=json
ExportTable(u, name) ==
  LET key == <<u, name>>
  IN /\ req' = [op |-> "Export", api |-> "dashboard", user |-> u, table |-> name]
     /\ UNCHANGED <<engine, auth, inflight, tables, db>>
     /\ IF key \notin DOMAIN tables
        THEN resp' = [status |-> 404] /\ executed' = <<>> /\ UNCHANGED log
        ELSE LET ut == tables[key]
                 ok == ut.real_name \in DOMAIN db
                 rows_data == ExportedRows(ut.schema, db[ut.real_name])
             IN /\ executed' = <<Stmt("SELECT", ut.real_name, <<>>, ok)>>
                /\ IF ~ok THEN resp' = [status |-> 500] /\ UNCHANGED log
                   ELSE /\ log' = log_activity(u, "EXPORT_DATA", name,
                                               [format |-> "json", row_count |-> Len(rows_data)])
                        /\ resp' = [status |-> 200, columns |-> ut.schema,
                                    rows |-> rows_data, row_count |-> Len(rows_data)]

\* one element of the imported list: a JSON object with its members, or any other
\* JSON value
JsonObject(fields) == [object |-> TRUE, fields |-> fields]

JsonScalar == [object |-> FALSE, fields |-> <<>>]

\* f'Row {i}: ...' with the zero-based position of the row
RowError(i, kind) == [row |-> i - 1, kind |-> kind]

\* the loop over enumerate(data), from its i-th element on: [db, inserted, errors,
\* stmts]
RECURSIVE ImportLoop(_, _, _, _, _, _)
ImportLoop(eng, rn, data, i, acc, d) ==
  IF i > Len(data) THEN [acc EXCEPT !.db = d]
  ELSE IF ~data[i].object
  THEN ImportLoop(eng, rn, data, i + 1,
                  [acc EXCEPT !.errors = Append(@, RowError(i, "Not a valid object"))], d)
  ELSE LET r == SqlInsert(eng, d, rn, data[i].fields)
           stmt == Stmt("INSERT", rn, <<>>, r.ok)
       IN IF r.ok
          THEN ImportLoop(eng, rn, data, i + 1,
                          [acc EXCEPT !.inserted = @ + 1, !.stmts = Append(@, stmt)], r.db)
          ELSE ImportLoop(eng, rn, data, i + 1,
                          [acc EXCEPT !.errors = Append(@, RowError(i, "sql")),
                                      !.stmts = Append(@, stmt)], d)

\* a faulty variant of ShownErrors that returns every message
AllErrors(errors) == errors

\* errors[:10]
ShownErrors(errors) == SubSeq(errors, 1, Min(Len(errors), 10))

\* TableImportView.post
ImportRows(u, name, data) ==
  LET key == <<u, name>>
  IN /\ req' = [op |-> "Import", api |-> "dashboard", user |-> u, table |-> name,
                data |-> data]
     /\ UNCHANGED <<engine, auth, inflight, tables>>
     /\ IF key \notin DOMAIN tables THEN Reject(404)
        ELSE IF data = <<>> THEN Reject(400)
        ELSE LET ut == tables[key]
                 r == ImportLoop(engine, ut.real_name, data, 1,
                                 [db |-> db, inserted |-> 0, errors |-> <<>>, stmts |-> <<>>],
                                 db)
             IN /\ db' = r.db
                /\ executed' = r.stmts
                /\ log' = log_activity(u, "IMPORT_DATA", name,
                                       [format |-> "json", imported |-> r.inserted,
                                        errors |-> Len(r.errors)])
                /\ resp' = [status |-> IF r.inserted > 0 THEN 201 ELSE 400,
                            imported |-> r.inserted,
                            errors |-> ShownErrors(r.errors),
                            total_errors |-> Len(r.errors)]

(***************************************************************************)
(* API keys and accounts: models.APIKey, APIKeyAuthentication, the key     *)
(* views of api_views.py and delete_account_view.  secrets.token_hex is    *)
(* taken to be fresh (the n-th key created carries token n) and SHA-256 to *)
(* be injective.                                                           *)
(***************************************************************************)
\* raw_key = f"sk_{secrets.token_hex(32)}"
generate_key(n) == [prefix |-> "sk_", token |-> n]

\* hashlib.sha256(raw_key.encode()).hexdigest()
hash_key(raw_key) == [sha256 |-> raw_key]

\* request.META.get('HTTP_X_API_KEY') of a request without the header
NoHeader == [prefix |-> "", token |-> 0]

\* request.user of a session request passes IsAuthenticated: the account exists
\* and is enabled
IsAuthenticated(u) == u \in DOMAIN accounts /\ accounts[u].is_active

\* a faulty variant of ActiveKeyWithHash that does not look at is_active
AnyKeyWithHash(store, key_hash) == {id \in DOMAIN store : store[id].key_hash = key_hash}

\* cls.objects.get(key_hash=key_hash, is_active=True)
ActiveKeyWithHash(store, key_hash) ==
  {id \in DOMAIN store : store[id].key_hash = key_hash /\ store[id].is_active}

\* APIKey.authenticate: [key, store] with key the matching row's id or Null, and
\* store the rows after last_used_at has been saved
authenticate(raw_key) ==
  IF raw_key = NoHeader \/ raw_key.prefix # "sk_" THEN [key |-> Null, store |-> api_keys]
  ELSE LET found == ActiveKeyWithHash(api_keys, hash_key(raw_key))
       IN IF found = {} THEN [key |-> Null, store |-> api_keys]
          ELSE LET id == CHOOSE k \in found : TRUE
               IN [key |-> id, store |-> [api_keys EXCEPT ![id].last_used_at = clock]]

\* what neither the key views nor the authenticator write
NoTableChange == executed' = <<>> /\ UNCHANGED <<engine, tables, db, log, inflight>>

\* APIKeyListCreateView.post
CreateKey(u, name) ==
  /\ req' = [op |-> "CreateKey", user |-> u, name |-> name]
  /\ NoTableChange
  /\ UNCHANGED <<accounts, clock>>
  /\ IF ~IsAuthenticated(u) THEN resp' = [status |-> 403] /\ UNCHANGED <<api_keys, issued>>
     ELSE IF Strip(name) = <<>> THEN resp' = [status |-> 400] /\ UNCHANGED <<api_keys, issued>>
     ELSE LET id == issued + 1
              raw_key == generate_key(id)
          IN /\ issued' = id
             /\ api_keys' = api_keys @@
                  (id :> [user |-> u, key_hash |-> hash_key(raw_key), is_active |-> TRUE,
                          last_used_at |-> Null])
             /\ resp' = [status |-> 201, key |-> raw_key, id |-> id]

\* APIKeyDetailView.patch; given tells whether the body carries is_active
PatchKey(u, key_id, given, is_active) ==
  /\ req' = [op |-> "PatchKey", user |-> u, key_id |-> key_id, given |-> given,
             is_active |-> is_active]
  /\ NoTableChange
  /\ UNCHANGED <<accounts, clock, issued>>
  /\ IF ~IsAuthenticated(u) THEN resp' = [status |-> 403] /\ UNCHANGED api_keys
     ELSE IF key_id \notin DOMAIN api_keys \/ api_keys[key_id].user # u
     THEN resp' = [status |-> 404] /\ UNCHANGED api_keys
     ELSE /\ api_keys' = IF ~given THEN api_keys
                         ELSE [api_keys EXCEPT ![key_id].is_active = is_active]
          /\ resp' = [status |-> 200]

\* APIKeyDetailView.delete
DeleteKey(u, key_id) ==
  /\ req' = [op |-> "DeleteKey", user |-> u, key_id |-> key_id]
  /\ NoTableChange
  /\ UNCHANGED <<accounts, clock, issued>>
  /\ IF ~IsAuthenticated(u) THEN resp' = [status |-> 403] /\ UNCHANGED api_keys
     ELSE IF key_id \notin DOMAIN api_keys \/ api_keys[key_id].user # u
     THEN resp' = [status |-> 404] /\ UNCHANGED api_keys
     ELSE /\ api_keys' = [id \in DOMAIN api_keys \ {key_id} |-> api_keys[id]]
          /\ resp' = [status |-> 200]

\* APIKeyAuthentication.authenticate at the head of a v1 request, and what the
\* framework answers: 401 for AuthenticationFailed and for a request no
\* authenticator claimed; otherwise the view runs as the key's owner
ApiKeyAuthenticate(api_key_header) ==
  /\ req' = [op |-> "Authenticate", header |-> api_key_header]
  /\ NoTableChange
  /\ UNCHANGED <<accounts, issued>>
  /\ IF api_key_header = NoHeader
     THEN resp' = [status |-> 401, failed |-> FALSE] /\ UNCHANGED <<api_keys, clock>>
     ELSE LET r == authenticate(api_key_header)
          IN /\ api_keys' = r.store
             /\ clock' = IF r.key = Null THEN clock ELSE clock + 1
             /\ IF r.key = Null THEN resp' = [status |-> 401, failed |-> TRUE]
                ELSE IF ~accounts[api_keys[r.key].user].is_active
                THEN resp' = [status |-> 401, failed |-> TRUE]
                ELSE resp' = [status |-> 0, user |-> api_keys[r.key].user, auth |-> r.key]

\* the account's is_active flag, set from the admin site
SetAccountActive(u, is_active) ==
  /\ u \in DOMAIN accounts
  /\ req' = [op |-> "SetAccountActive", user |-> u, is_active |-> is_active]
  /\ resp' = [status |-> 200]
  /\ accounts' = [accounts EXCEPT ![u].is_active = is_active]
  /\ NoTableChange
  /\ UNCHANGED <<api_keys, issued, clock>>

\* delete_account_view: user.delete() removes, by on_delete=CASCADE, the
\* account's UserTable, ActivityLog and APIKey rows; no physical table is dropped
DeleteAccount(u) ==
  /\ req' = [op |-> "DeleteAccount", user |-> u]
  /\ UNCHANGED <<engine, db, issued, clock, inflight>>
  /\ IF ~IsAuthenticated(u)
     THEN /\ resp' = [status |-> 302]
          /\ executed' = <<>>
          /\ UNCHANGED <<tables, log, accounts, api_keys>>
     ELSE /\ accounts' = [a \in DOMAIN accounts \ {u} |-> accounts[a]]
          /\ tables' = [k \in {key \in DOMAIN tables : key[1] # u} |-> tables[k]]
          /\ log' = SelectSeq(log, LAMBDA rec : rec.user # u)
          /\ api_keys' = [id \in {k \in DOMAIN api_keys : api_keys[k].user # u} |-> api_keys[id]]
          /\ executed' = <<>>
          /\ resp' = [status |-> 302]

(***************************************************************************)
(* Requests explored                                                       *)
(***************************************************************************)
Users == {1, 2}

\* the server's request workers
Workers == {1, 2}

\* no request is in the middle of its handler
NoneInFlight == inflight = [w \in Workers |-> [done |-> TRUE, status |-> 0]]

\* two registered, enabled accounts and no API key
FreshAuth ==
  /\ accounts = [u \in Users |-> [is_active |-> TRUE]]
  /\ api_keys = <<>>
  /\ issued = 0
  /\ clock = 0

Col(name, type, pk, notnull, unique) ==
  [name |-> name, type |-> type, pk |-> pk, notnull |-> notnull, unique |-> unique]

TableNames == {<<"t">>}

CreateColumns ==
  { <<Col(<<"a">>, "INTEGER", TRUE, FALSE, FALSE), Col(<<"b">>, "TEXT", FALSE, TRUE, TRUE)>>,
    <<Col(<<"a">>, "INTEGER", TRUE, FALSE, FALSE), Col(<<"b">>, "TEXT", TRUE, FALSE, FALSE)>>,
    <<Col(<<"a">>, "TEXT", FALSE, FALSE, FALSE), Col(<<"b">>, "TEXT", FALSE, FALSE, FALSE)>>,
    <<Col(<<"a">>, "TEXT", FALSE, FALSE, FALSE), Col(<<"a">>, "TEXT", FALSE, FALSE, FALSE)>>,
    <<Col(<<" ", "a">>, "TEXT", FALSE, FALSE, FALSE)>>,
    <<Col(<<"a", "-">>, "TEXT", FALSE, FALSE, FALSE)>>,
    <<>> }

ColumnNames == {<<"a">>, <<"b">>, <<"c">>, <<"c", "-">>}

Renames == {<<<<"a">>, <<"b">>>>, <<<<"a">>, <<"c">>>>, <<<<"a">>, <<"a">>>>,
            <<<<"c">>, <<"a">>>>, <<<<"b">>, <<"c", "-">>>>}

Engines == {"sqlite", "postgresql"}

Idle == [op |-> "none"]

Init ==
  /\ engine \in Engines
  /\ tables = <<>>
  /\ db = <<>>
  /\ log = <<>>
  /\ req = Idle
  /\ resp = [status |-> 0]
  /\ executed = <<>>
  /\ FreshAuth
  /\ NoneInFlight

\* the activity log is the one store that only grows: requests are explored
\* while it holds fewer than MaxLog rows
CanLog == Len(log) < MaxLog

DashboardCreate ==
  CanLog /\ \E u \in Users, n \in TableNames, cols \in CreateColumns : CreateTable(u, n, cols)

ApiCreate ==
  CanLog /\ \E u \in Users, n \in TableNames, cols \in CreateColumns : ApiCreateTable(u, n, cols)

DashboardDropTable == CanLog /\ \E u \in Users, n \in TableNames : DropTable(u, n)

ReadSchema ==
  CanLog /\ \E api \in {"dashboard", "v1"}, u \in Users, n \in TableNames : GetSchema(api, u, n)

DashboardAddColumn ==
  CanLog /\ \E u \in Users, n \in TableNames, c \in ColumnNames : AddColumn(u, n, c)

ApiAdd ==
  CanLog /\ \E u \in Users, n \in TableNames, c \in ColumnNames : ApiAddColumn(u, n, c)

DashboardRename ==
  CanLog /\ \E u \in Users, n \in TableNames, r \in Renames : RenameColumn(u, n, r[1], r[2])

ApiRename ==
  CanLog /\ \E u \in Users, n \in TableNames, r \in Renames : ApiRenameColumn(u, n, r[1], r[2])

DashboardDropColumn ==
  CanLog /\ \E u \in Users, n \in TableNames, c \in ColumnNames : DropColumn(u, n, c)

ApiDrop ==
  CanLog /\ \E u \in Users, n \in TableNames, c \in ColumnNames : ApiDropColumn(u, n, c)

Next ==
  \/ DashboardCreate
  \/ ApiCreate
  \/ DashboardDropTable
  \/ ReadSchema
  \/ DashboardAddColumn
  \/ ApiAdd
  \/ DashboardRename
  \/ ApiRename
  \/ DashboardDropColumn
  \/ ApiDrop

Spec == Init /\ [][Next]_vars

(***************************************************************************)
(* The identifier validators on their own: every string over Alphabet of   *)
(* at most MaxNameLen characters is put to each validation path.           *)
(***************************************************************************)
InitIdent ==
  /\ engine = "sqlite"
  /\ tables = <<>>
  /\ db = <<>>
  /\ log = <<>>
  /\ req \in {[op |-> "validate", name |-> s] : s \in StringsUpTo(MaxNameLen)}
  /\ resp = [status |-> 0]
  /\ executed = <<>>
  /\ FreshAuth
  /\ NoneInFlight

Validated(path, accepted) ==
  /\ req.op = "validate"
  /\ resp' = [status |-> IF accepted THEN 200 ELSE 400, path |-> path]
  /\ UNCHANGED <<engine, auth, inflight, tables, db, log, req, executed>>

\* the dashboard's table name, CreateTableSerializer.validate_name
ValidateTableName == Validated("validate_name", validate_name(req.name).ok)

\* a v1 CreateTable column name (stripped first)
ValidateApiCreateColumn == Validated("v1 create column", ApiColumnNameAccepted(req.name))

\* a v1 AddColumn name and a v1 RenameColumn new name (not stripped)
ValidateApiColumn == Validated("v1 column", IsIdentifier(req.name))

NextIdent == ValidateTableName \/ ValidateApiCreateColumn \/ ValidateApiColumn

SpecIdent == InitIdent /\ [][NextIdent]_vars

\* section 4.1 of the specification: letters, digits, underscore; not purely
\* numeric; non-empty
IsBareIdentifier(s) ==
  /\ s # <<>>
  /\ \A i \in 1..Len(s) : s[i] \in Letters \cup Digits \cup {Underscore}
  /\ \E i \in 1..Len(s) : s[i] \notin Digits

\* C2: on every validation path a name is accepted if and only if it is non-empty,
\* made of letters, digits and underscores only, and not purely numeric.
C2_AcceptedIffBareIdentifier ==
  resp.status # 0 => (resp.status = 200 <=> IsBareIdentifier(req.name))

(***************************************************************************)
(* Claims about the schema operations, checked under Spec                  *)
(***************************************************************************)
\* the column name a column request carries, as its handler reads it
RequestedName(name, api) == IF api = "dashboard" THEN Strip(name) ELSE name

\* C1: every table name and column name embedded in a statement sent to the
\* engine has been accepted by the identifier validator, and a request carrying an
\* invalid table or column name is answered 400 without any statement being sent.
C1_OnlyValidatedIdentifiersReachSql ==
  /\ \A i \in 1..Len(executed) :
        \A c \in Range(executed[i].cols) : validate_name(c).ok \/ IsIdentifier(c)
  /\ executed # <<>> => (validate_name(req.table).ok \/ IsIdentifier(req.table))
  /\ (/\ req.op \in {"CreateTable", "AddColumn", "RenameColumn", "DropColumn"}
      /\ \/ ~IsBareIdentifier(Strip(req.table))
         \/ req.op = "CreateTable" /\
              \E i \in 1..Len(req.columns) : ~IsBareIdentifier(Strip(req.columns[i].name))
         \/ req.op = "AddColumn" /\ ~IsBareIdentifier(Strip(req.name))
         \/ req.op = "RenameColumn" /\ ~IsBareIdentifier(Strip(req.new_name)))
     => (resp.status \in {400, 404} /\ executed = <<>>)

\* C3: a CreateTable whose column list sets the primary-key flag on two or more
\* columns is answered with a validation error on both endpoints, and runs no
\* statement and stores no descriptor.
C3_TwoPrimaryKeysRejected ==
  (req.op = "CreateTable" /\ pk_count(req.columns) >= 2)
    => (resp.status = 400 /\ executed = <<>>)

\* C4: every stored column list has at least one column, no two columns of the
\* same name, and at most one column flagged primary key.
C4_DescriptorWellFormed ==
  \A key \in DOMAIN tables :
    LET schema == tables[key].schema
    IN /\ Len(schema) >= 1
       /\ ~HasDuplicates(SchemaNames(schema))
       /\ pk_count(schema) <= 1

\* C5: for every descriptor, the ordered list of stored column names equals the
\* ordered list of column names of its physical table.
C5_SchemaMatchesPhysical ==
  \A key \in DOMAIN tables :
    /\ tables[key].real_name \in DOMAIN db
    /\ SchemaNames(tables[key].schema) = ColNames(db[tables[key].real_name].cols)

\* C8: AddColumn with a name already in the stored column list is rejected with a
\* validation error and changes neither the physical table nor the stored list;
\* AddColumn with a new name, when it succeeds, appends exactly one column of that
\* name at the end and leaves the columns before it as they were.
C8_AddColumnRejectsDuplicateAppendsNew ==
  [][(req'.op = "AddColumn" /\ <<req'.user, req'.table>> \in DOMAIN tables) =>
       LET key == <<req'.user, req'.table>>
           schema == tables[key].schema
           name == RequestedName(req'.name, req'.api)
       IN IF name \in Range(SchemaNames(schema))
          THEN resp'.status = 400 /\ UNCHANGED <<tables, db>>
          ELSE resp'.status \in {200, 201} =>
                 /\ Len(tables'[key].schema) = Len(schema) + 1
                 /\ SubSeq(tables'[key].schema, 1, Len(schema)) = schema
                 /\ tables'[key].schema[Len(schema) + 1].name = name]_vars

\* C9: RenameColumn is rejected, with physical table and stored schema unchanged,
\* when oldName is not in the stored list or newName is present and differs from
\* oldName; when it succeeds only the renamed column's name changes in the list.
C9_RenameRejectsOrRenamesInPlace ==
  [][(req'.op = "RenameColumn" /\ <<req'.user, req'.table>> \in DOMAIN tables) =>
       LET key == <<req'.user, req'.table>>
           schema == tables[key].schema
           names == SchemaNames(schema)
           old == RequestedName(req'.old_name, req'.api)
           new == RequestedName(req'.new_name, req'.api)
       IN IF old \notin Range(names) \/ (new \in Range(names) /\ new # old)
          THEN resp'.status \notin {200, 201} /\ UNCHANGED <<tables, db>>
          ELSE resp'.status = 200 =>
                 tables'[key].schema = [schema EXCEPT ![IndexOf(names, old)].name = new]]_vars

(***************************************************************************)
(* Tables only: two owners create, read and drop tables of two names.      *)
(***************************************************************************)
MaxTableLog == 3

TableNamePool == {<<"t">>, <<"p">>}

TableColumnLists ==
  { <<Col(<<"a">>, "INTEGER", TRUE, FALSE, FALSE), Col(<<"b">>, "TEXT", FALSE, TRUE, TRUE)>>,
    <<Col(<<"a">>, "INTEGER", TRUE, FALSE, FALSE), Col(<<"b">>, "TEXT", TRUE, FALSE, FALSE)>> }

CanLogTables == Len(log) < MaxTableLog

TablesDashboardCreate ==
  CanLogTables /\ \E u \in Users, n \in TableNamePool, cols \in TableColumnLists :
                    CreateTable(u, n, cols)

TablesApiCreate ==
  CanLogTables /\ \E u \in Users, n \in TableNamePool, cols \in TableColumnLists :
                    ApiCreateTable(u, n, cols)

TablesDrop == CanLogTables /\ \E u \in Users, n \in TableNamePool : DropTable(u, n)

TablesReadSchema ==
  CanLogTables /\ \E api \in {"dashboard", "v1"}, u \in Users, n \in TableNamePool :
                    GetSchema(api, u, n)

NextTables ==
  \/ TablesDashboardCreate
  \/ TablesApiCreate
  \/ TablesDrop
  \/ TablesReadSchema

SpecTables == Init /\ [][NextTables]_vars

\* a column list the validators accept as sent: every name a bare identifier
\* without padding, no name twice
ValidColumnList(columns) ==
  /\ columns # <<>>
  /\ \A i \in 1..Len(columns) : IsBareIdentifier(columns[i].name) /\ IsIdentifier(columns[i].name)
  /\ ~HasDuplicates(SchemaNames(columns))

\* the request handled last was a successful CreateTable of a valid column list
\* with exactly one primary-key flag
CreatedWithOnePk ==
  /\ req.op = "CreateTable"
  /\ resp.status = 201
  /\ ValidColumnList(req.columns)
  /\ pk_count(req.columns) = 1

\* C6: when a CreateTable of a valid column list with exactly one primary-key flag
\* has succeeded, the schema read that follows it for the same owner and table name
\* answers 200 with a column list equal to the input: same order, names and flags.
C6_SchemaReadReturnsCreatedColumns ==
  [][(/\ CreatedWithOnePk
      /\ req'.op = "GetSchema"
      /\ req'.user = req.user
      /\ req'.table = req.table)
     => (/\ resp'.status = 200
         /\ resp'.columns = req.columns
         /\ \A i \in 1..Len(req.columns) :
              /\ resp'.columns[i].name = req.columns[i].name
              /\ resp'.columns[i].pk = req.columns[i].pk
              /\ resp'.columns[i].notnull = req.columns[i].notnull
              /\ resp'.columns[i].unique = req.columns[i].unique)]_vars

\* a schema read has answered with a two-column list whose first column is the
\* primary key and whose second is NOT NULL and UNIQUE
C6_Witness ==
  /\ req.op = "GetSchema"
  /\ resp.status = 200
  /\ Len(resp.columns) = 2
  /\ pk_count(resp.columns) = 1
  /\ resp.columns[1].pk
  /\ resp.columns[2].notnull /\ resp.columns[2].unique /\ ~resp.columns[2].pk
  /\ \E i \in 1..Len(log) : log[i].action = "CREATE_TABLE" /\ log[i].user = req.user
                               /\ log[i].table_name = req.table

\* C7: a DropTable of an existing table answers 200 and removes the physical table
\* and the descriptor; a DropTable repeated right after it answers 404; neither
\* sends a failing statement or answers 500; and no descriptor of another owner or
\* of another table is changed, added or removed by either call.
C7_DropTableTwice ==
  [][req'.op = "DropTable" =>
       LET key == <<req'.user, req'.table>>
       IN /\ resp'.status # 500
          /\ \A i \in 1..Len(executed') : executed'[i].ok
          /\ key \in DOMAIN tables =>
                /\ resp'.status = 200
                /\ key \notin DOMAIN tables'
                /\ tables[key].real_name \notin DOMAIN db'
          /\ key \notin DOMAIN tables =>
                /\ resp'.status = 404
                /\ UNCHANGED <<tables, db>>
          /\ (req.op = "DropTable" /\ resp.status = 200 /\ req = req') =>
                resp'.status = 404
          /\ DOMAIN tables' \ {key} = DOMAIN tables \ {key}
          /\ \A other \in DOMAIN tables \ {key} : tables'[other] = tables[other]]_vars

\* the second of two DropTable calls for the same table has answered 404
C7_Witness ==
  /\ req.op = "DropTable"
  /\ resp.status = 404
  /\ \E i \in 1..Len(log) : /\ log[i].action = "DELETE_TABLE"
                              /\ log[i].user = req.user
                              /\ log[i].table_name = req.table

(***************************************************************************)
(* Rows: one owner creates a table, inserts rows and renames columns.      *)
(***************************************************************************)
MaxRowLog == 4

RowColumnLists ==
  { <<Col(<<"a">>, "INTEGER", TRUE, FALSE, FALSE), Col(<<"b">>, "TEXT", FALSE, FALSE, FALSE)>>,
    <<Col(<<"a">>, "TEXT", FALSE, FALSE, FALSE), Col(<<"b">>, "TEXT", FALSE, FALSE, FALSE)>> }

RowData == {(<<"a">> :> 1) @@ (<<"b">> :> 2), (<<"a">> :> 2)}

RowRenames == {<<<<"a">>, <<"c">>>>, <<<<"a">>, <<"a">>>>, <<<<"b">>, <<"a">>>>,
               <<<<"c">>, <<"b">>>>}

CanLogRows == Len(log) < MaxRowLog

RowsDashboardCreate == CanLogRows /\ \E cols \in RowColumnLists : CreateTable(1, <<"t">>, cols)

RowsApiCreate == CanLogRows /\ \E cols \in RowColumnLists : ApiCreateTable(1, <<"t">>, cols)

RowsInsert ==
  CanLogRows /\ \E api \in {"dashboard", "v1"}, data \in RowData : InsertRow(api, 1, <<"t">>, data)

RowsDashboardRename == CanLogRows /\ \E r \in RowRenames : RenameColumn(1, <<"t">>, r[1], r[2])

RowsApiRename == CanLogRows /\ \E r \in RowRenames : ApiRenameColumn(1, <<"t">>, r[1], r[2])

NextRows ==
  \/ RowsDashboardCreate
  \/ RowsApiCreate
  \/ RowsInsert
  \/ RowsDashboardRename
  \/ RowsApiRename

SpecRows == Init /\ [][NextRows]_vars

\* C10 as stated: after a successful rename of column X to Y every row that existed
\* before is still present, its value under key Y is its former value under key X,
\* key X no longer appears in the row mappings, and every other column's value is
\* unchanged.
C10_RenameDropsOldKey ==
  [][(req'.op = "RenameColumn" /\ resp'.status = 200) =>
       LET rn == tables[<<req'.user, req'.table>>].real_name
           X == RequestedName(req'.old_name, req'.api)
           Y == RequestedName(req'.new_name, req'.api)
           before == RowMappings(engine, db, rn)
           after == RowMappings(engine, db', rn)
       IN /\ Len(after) = Len(before)
          /\ \A i \in 1..Len(before) :
               /\ X \in DOMAIN before[i] /\ Y \in DOMAIN after[i]
               /\ after[i][Y] = before[i][X]
               /\ X \notin DOMAIN after[i]
               /\ \A c \in DOMAIN before[i] \ {X, Y} :
                    c \in DOMAIN after[i] /\ after[i][c] = before[i][c]]_vars

\* C10, amended: after a successful rename of column X to Y every row that existed
\* before is still present, its value under key Y is its former value under key X,
\* key X no longer appears in the row mappings when Y differs from X, and every
\* other column's value is unchanged.
C10_RenamePreservesRows ==
  [][(req'.op = "RenameColumn" /\ resp'.status = 200) =>
       LET rn == tables[<<req'.user, req'.table>>].real_name
           X == RequestedName(req'.old_name, req'.api)
           Y == RequestedName(req'.new_name, req'.api)
           before == RowMappings(engine, db, rn)
           after == RowMappings(engine, db', rn)
       IN /\ Len(after) = Len(before)
          /\ \A i \in 1..Len(before) :
               /\ X \in DOMAIN before[i] /\ Y \in DOMAIN after[i]
               /\ after[i][Y] = before[i][X]
               /\ Y # X => X \notin DOMAIN after[i]
               /\ \A c \in DOMAIN before[i] \ {X, Y} :
                    c \in DOMAIN after[i] /\ after[i][c] = before[i][c]]_vars

\* a v1 rename to a different name has succeeded on a table that holds a row with
\* a value in the renamed column
C10_Witness ==
  /\ req.op = "RenameColumn"
  /\ req.api = "v1"
  /\ resp.status = 200
  /\ req.old_name # req.new_name
  /\ <<req.user, req.table>> \in DOMAIN tables
  /\ LET rows == RowMappings(engine, db, tables[<<req.user, req.table>>].real_name)
     IN /\ Len(rows) >= 1
        /\ req.new_name \in DOMAIN rows[1]
        /\ req.old_name \notin DOMAIN rows[1]
        /\ rows[1][req.new_name] # Null

(***************************************************************************)
(* Column drop by rebuild: one owner creates a table, inserts rows and     *)
(* drops columns through the v1 endpoint, on an SQLite without native      *)
(* DROP COLUMN and on one that refuses it for key and unique columns.      *)
(***************************************************************************)
MaxRebuildLog == 4

RebuildEngines == {"sqlite_old", "sqlite"}

RebuildColumnLists ==
  { <<Col(<<"a">>, "INTEGER", TRUE, FALSE, FALSE), Col(<<"b">>, "TEXT", FALSE, FALSE, TRUE)>>,
    <<Col(<<" ", "a">>, "TEXT", FALSE, FALSE, FALSE), Col(<<"b">>, "TEXT", FALSE, FALSE, FALSE)>> }

RebuildData == {(<<"a">> :> 1) @@ (<<"b">> :> 2), (<<"a">> :> 2) @@ (<<"b">> :> 1), (<<"b">> :> 3)}

RebuildDrops == {<<"a">>, <<"b">>, <<" ", "a">>}

InitRebuild ==
  /\ engine \in RebuildEngines
  /\ tables = <<>>
  /\ db = <<>>
  /\ log = <<>>
  /\ req = Idle
  /\ resp = [status |-> 0]
  /\ executed = <<>>
  /\ FreshAuth
  /\ NoneInFlight

CanLogRebuild == Len(log) < MaxRebuildLog

RebuildDashboardCreate ==
  CanLogRebuild /\ \E cols \in RebuildColumnLists : CreateTable(1, <<"t">>, cols)

RebuildApiCreate ==
  CanLogRebuild /\ \E cols \in RebuildColumnLists : ApiCreateTable(1, <<"t">>, cols)

RebuildInsert == CanLogRebuild /\ \E data \in RebuildData : InsertRow("v1", 1, <<"t">>, data)

RebuildDrop == CanLogRebuild /\ \E c \in RebuildDrops : ApiDropColumn(1, <<"t">>, c)

NextRebuild ==
  \/ RebuildDashboardCreate
  \/ RebuildApiCreate
  \/ RebuildInsert
  \/ RebuildDrop

SpecRebuild == InitRebuild /\ [][NextRebuild]_vars

\* the statements of the request handled last end with the rename of the temp table
UsedRebuild(stmts) ==
  stmts # <<>> /\ stmts[Len(stmts)].verb = "RENAME TABLE" /\ stmts[Len(stmts)].ok

MaxListLog == 3

ListColumnLists ==
  { <<Col(<<"a">>, "INTEGER", TRUE, FALSE, FALSE), Col(<<"b">>, "INTEGER", FALSE, FALSE, FALSE)>> }

ListData == {(<<"a">> :> 1) @@ (<<"b">> :> 2), (<<"a">> :> 2) @@ (<<"b">> :> 1),
             (<<"a">> :> 3) @@ (<<"b">> :> 12)}

Filter(col, op, val) == [col |-> col, op |-> op, val |-> val]

\* filter keys: a, a__gt, a__lte, b__ne, the undeclared z and the unknown a__between
FilterPool ==
  { Filter(<<"a">>, "", 1), Filter(<<"a">>, "gt", 1), Filter(<<"a">>, "lte", 2),
    Filter(<<"b">>, "ne", 2), Filter(<<"z">>, "", 1), Filter(<<"a">>, "between", 1) }

\* a query string; limit and page_size are sent with the same value
Query(page, limit, sort, order, search, filters) ==
  [page |-> page, limit |-> limit, page_size |-> limit, offset |-> Absent,
   sort |-> sort, order |-> order, search |-> search, filters |-> filters]

PagingQueries ==
  {Query(page, limit, <<"a">>, "asc", Absent, {}) :
     page \in {Absent, IntParam(0), IntParam(1), IntParam(2), IntParam(3), TextParam},
     limit \in {Absent, IntParam(0), IntParam(1), IntParam(2), IntParam(101)}}

FilterQueries ==
  {Query(Absent, Absent, <<>>, "asc", Absent, fs) :
     fs \in {x \in SUBSET FilterPool : Cardinality(x) <= 2}}

OtherQueries ==
  { Query(Absent, Absent, <<"b">>, "desc", Absent, {}),
    Query(Absent, Absent, <<>>, "asc", IntParam(1), {}),
    Query(Absent, Absent, <<>>, "asc", IntParam(1), {Filter(<<"a">>, "gt", 1)}) }

ListQueries == PagingQueries \cup FilterQueries \cup OtherQueries

CanLogList == Len(log) < MaxListLog

ListDashboardCreate ==
  CanLogList /\ \E cols \in ListColumnLists : CreateTable(1, <<"t">>, cols)

ListApiCreate ==
  CanLogList /\ \E cols \in ListColumnLists : ApiCreateTable(1, <<"t">>, cols)

ListInsert == CanLogList /\ \E data \in ListData : InsertRow("v1", 1, <<"t">>, data)

ListDashboard == \E q \in ListQueries : ListRows(1, <<"t">>, q)

ListApi == \E q \in ListQueries : ApiListRows(1, <<"t">>, q)

NextList ==
  \/ ListDashboardCreate
  \/ ListApiCreate
  \/ ListInsert
  \/ ListDashboard
  \/ ListApi

SpecList == Init /\ [][NextList]_vars

\* the limit a row-list request supplied: limit on v1, page_size on the dashboard
SuppliedLimit(r) == IF r.api = "v1" THEN r.query.limit ELSE r.query.page_size

\* the limit a row-list response reports
ReportedLimit(r, answer) == IF r.api = "v1" THEN answer.limit ELSE answer.page_size

\* C12: a row-list request that is answered has an effective limit, in the SELECT
\* statement and in the response, that is an integer in 1..100, equal to 25 when no
\* limit was supplied and to 100 when the supplied limit exceeds 100, and the page
\* used is at least 1.
C12_LimitWithinBounds ==
  (req.op = "ListRows" /\ resp.status = 200) =>
    LET supplied == SuppliedLimit(req)
        reported == ReportedLimit(req, resp)
    IN /\ reported \in 1..100
       /\ executed[Len(executed)].limit = reported
       /\ supplied.kind = "absent" => reported = 25
       /\ (supplied.kind = "int" /\ supplied.val > 100) => reported = 100
       /\ resp.page >= 1

\* the meaning of a filter key: a bare column is equality, gt/lt/gte/lte are the
\* comparisons, ne is not-equal
Satisfies(op, stored, value) ==
  /\ stored # Null
  /\ CASE op = "" -> stored = value
       [] op = "gt" -> stored > value
       [] op = "lt" -> stored < value
       [] op = "gte" -> stored >= value
       [] op = "lte" -> stored <= value
       [] OTHER -> stored # value

\* C14: on both endpoints, for filter keys on declared columns with the operators
\* none, gt, lt, gte, lte and ne, the rows returned and the reported total are
\* exactly the rows that satisfy every filter predicate.
C14_FiltersSelectExactly ==
  (/\ req.op = "ListRows"
   /\ resp.status = 200
   /\ req.query.search = Absent
   /\ req.query.page = Absent
   /\ SuppliedLimit(req) = Absent
   /\ \A f \in req.query.filters :
        /\ f.col \in Range(SchemaNames(tables[<<req.user, req.table>>].schema))
        /\ f.op \in {"", "gt", "lt", "gte", "lte", "ne"})
  => LET rn == tables[<<req.user, req.table>>].real_name
         t == db[rn]
         names == ColNames(t.cols)
         maps == RowMappings(engine, db, rn)
         expected == {i \in 1..Len(t.rows) :
                        \A f \in req.query.filters :
                          Satisfies(f.op, t.rows[i].vals[IndexOf(names, f.col)], f.val)}
     IN /\ resp.total = Cardinality(expected)
        /\ Len(resp.rows) = Cardinality(expected)
        /\ Range(resp.rows) = {maps[i] : i \in expected}

\* ceil(n / l)
CeilDiv(n, l) == (n + l - 1) \div l

\* C15: on the v1 endpoint, for a table of N rows, a limit L in 1..100 and an
\* ascending sort on a declared column whose values are distinct, every page p in
\* 1..ceil(N/L) is answered with rows (p-1)L+1 .. min(pL, N) of the table in
\* ascending sort order, so that the pages together hold every row exactly once,
\* and total_pages is ceil(N/L).
C15_PagesPartitionTable ==
  LET key == <<req.user, req.table>>
      q == req.query
      rn == tables[key].real_name
      t == db[rn]
      N == Len(t.rows)
      L == q.limit.val
      p == q.page.val
      k == IndexOf(ColNames(t.cols), q.sort)
      maps == RowMappings(engine, db, rn)
      smaller(i) == Cardinality({j \in 1..N : t.rows[j].vals[k] < t.rows[i].vals[k]})
      ranked == [r \in 1..N |-> maps[CHOOSE i \in 1..N : smaller(i) = r - 1]]
      first == (p - 1) * L + 1
      last == Min(p * L, N)
  IN (/\ req.op = "ListRows"
      /\ req.api = "v1"
      /\ key \in DOMAIN tables
      /\ rn \in DOMAIN db
      /\ q.sort \in Range(SchemaNames(tables[key].schema))
      /\ q.sort \in Range(ColNames(t.cols))
      /\ q.order = "asc"
      /\ q.filters = {} /\ q.search = Absent /\ q.offset = Absent
      /\ q.limit.kind = "int" /\ L \in 1..100
      /\ q.page.kind = "int" /\ p \in 1..CeilDiv(N, L)
      /\ \A i, j \in 1..N : t.rows[i].vals[k] # Null /\ (i # j => t.rows[i].vals[k] # t.rows[j].vals[k]))
     => (/\ resp.status = 200
         /\ resp.total = N
         /\ resp.total_pages = CeilDiv(N, L)
         /\ resp.rows = [j \in 1..(last - first + 1) |-> ranked[first + j - 1]])

(***************************************************************************)
(* Filter keys: lists with every set of at most two filter keys, on a      *)
(* table of at most two rows.                                              *)
(***************************************************************************)
MaxFilterLog == 3

CanLogFilter == Len(log) < MaxFilterLog

FilterDashboardCreate ==
  CanLogFilter /\ \E cols \in ListColumnLists : CreateTable(1, <<"t">>, cols)

FilterApiCreate ==
  CanLogFilter /\ \E cols \in ListColumnLists : ApiCreateTable(1, <<"t">>, cols)

FilterInsert == CanLogFilter /\ \E data \in ListData : InsertRow("v1", 1, <<"t">>, data)

FilterListDashboard == \E q \in FilterQueries : ListRows(1, <<"t">>, q)

FilterListApi == \E q \in FilterQueries : ApiListRows(1, <<"t">>, q)

NextFilter ==
  \/ FilterDashboardCreate
  \/ FilterApiCreate
  \/ FilterInsert
  \/ FilterListDashboard
  \/ FilterListApi

SpecFilter == Init /\ [][NextFilter]_vars

\* a filter key whose column part is not declared or whose suffix is not known
Unrecognised(f, declared) ==
  \/ f.col \notin declared
  \/ f.op \notin {"", "gt", "lt", "gte", "lte", "ne", "contains", "icontains"}

\* C13: a row-list request that differs from the one answered just before it, on
\* the same endpoint and table, only by additional filter keys whose column is not
\* declared or whose suffix is not recognised, gets the same answer: the same
\* status, rows and total.
C13_UnrecognisedKeysIgnored ==
  [][(/\ req.op = "ListRows"
      /\ req'.op = "ListRows"
      /\ req'.api = req.api /\ req'.user = req.user /\ req'.table = req.table
      /\ <<req.user, req.table>> \in DOMAIN tables
      /\ req.query.filters \subseteq req'.query.filters
      /\ [req'.query EXCEPT !.filters = req.query.filters] = req.query
      /\ \A f \in req'.query.filters \ req.query.filters :
           Unrecognised(f, Range(SchemaNames(tables[<<req.user, req.table>>].schema))))
     => (/\ resp'.status = resp.status
         /\ resp.status = 200 => (resp'.rows = resp.rows /\ resp'.total = resp.total)
         /\ resp' = resp)]_vars

\* a v1 list carrying a recognised key and a key with an unknown suffix has been
\* answered with a row, while the table holds a row the recognised key excludes
C13_Witness ==
  /\ req.op = "ListRows"
  /\ req.api = "v1"
  /\ resp.status = 200
  /\ \E f \in req.query.filters : f.op = "between"
  /\ \E f \in req.query.filters : f.op = "gt"
  /\ Len(resp.rows) = 1
  /\ Len(db[tables[<<req.user, req.table>>].real_name].rows) = 2

(***************************************************************************)
(* Activity: one owner runs every mutating operation of both endpoints on  *)
(* one table.                                                              *)
(***************************************************************************)
MaxActivityLog == 3

ActivityColumnLists ==
  { <<Col(<<"a">>, "INTEGER", TRUE, FALSE, FALSE), Col(<<"b">>, "TEXT", FALSE, FALSE, FALSE)>>,
    <<Col(<<"a">>, "INTEGER", FALSE, FALSE, FALSE), Col(<<"b">>, "TEXT", FALSE, FALSE, FALSE)>> }

ActivityColumns == {<<"b">>, <<"c">>}

ActivityRenames == {<<<<"b">>, <<"c">>>>, <<<<"a">>, <<"a">>>>}

ActivityData == {(<<"a">> :> 1) @@ (<<"b">> :> 2), (<<"z">> :> 1), <<>>}

ActivityUpdates == {(<<"b">> :> 3), (<<"z">> :> 1), <<>>}

ActivityRowIds == {1, 2}

CanLogActivity == Len(log) < MaxActivityLog

ActivityDashboardCreate ==
  CanLogActivity /\ \E cols \in ActivityColumnLists : CreateTable(1, <<"t">>, cols)

ActivityApiCreate ==
  CanLogActivity /\ \E cols \in ActivityColumnLists : ApiCreateTable(1, <<"t">>, cols)

ActivityDropTable == CanLogActivity /\ DropTable(1, <<"t">>)

ActivityDashboardAdd == CanLogActivity /\ \E c \in ActivityColumns : AddColumn(1, <<"t">>, c)

ActivityApiAdd == CanLogActivity /\ \E c \in ActivityColumns : ApiAddColumn(1, <<"t">>, c)

ActivityDashboardRename ==
  CanLogActivity /\ \E r \in ActivityRenames : RenameColumn(1, <<"t">>, r[1], r[2])

ActivityApiRename ==
  CanLogActivity /\ \E r \in ActivityRenames : ApiRenameColumn(1, <<"t">>, r[1], r[2])

ActivityDashboardDropColumn ==
  CanLogActivity /\ \E c \in ActivityColumns : DropColumn(1, <<"t">>, c)

ActivityApiDropColumn ==
  CanLogActivity /\ \E c \in ActivityColumns : ApiDropColumn(1, <<"t">>, c)

ActivityInsert ==
  CanLogActivity /\ \E api \in {"dashboard", "v1"}, data \in ActivityData :
                      InsertRow(api, 1, <<"t">>, data)

ActivityDashboardUpdate ==
  CanLogActivity /\ \E id \in ActivityRowIds, data \in ActivityUpdates :
                      UpdateRow(1, <<"t">>, id, data)

ActivityApiUpdate ==
  CanLogActivity /\ \E id \in ActivityRowIds, data \in ActivityUpdates :
                      ApiUpdateRow(1, <<"t">>, id, data)

ActivityDashboardDelete == CanLogActivity /\ \E id \in ActivityRowIds : DeleteRow(1, <<"t">>, id)

ActivityApiDelete == CanLogActivity /\ \E id \in ActivityRowIds : ApiDeleteRow(1, <<"t">>, id)

NextActivity ==
  \/ ActivityDashboardCreate
  \/ ActivityApiCreate
  \/ ActivityDropTable
  \/ ActivityDashboardAdd
  \/ ActivityApiAdd
  \/ ActivityDashboardRename
  \/ ActivityApiRename
  \/ ActivityDashboardDropColumn
  \/ ActivityApiDropColumn
  \/ ActivityInsert
  \/ ActivityDashboardUpdate
  \/ ActivityApiUpdate
  \/ ActivityDashboardDelete
  \/ ActivityApiDelete

SpecActivity == Init /\ [][NextActivity]_vars

\* the action kind each mutating operation records
ActionOf(op) ==
  CASE op = "CreateTable" -> "CREATE_TABLE"
    [] op = "DropTable" -> "DELETE_TABLE"
    [] op = "AddColumn" -> "ADD_COLUMN"
    [] op = "RenameColumn" -> "RENAME_COLUMN"
    [] op = "DropColumn" -> "DELETE_COLUMN"
    [] op = "InsertRow" -> "INSERT_ROW"
    [] op = "UpdateRow" -> "UPDATE_ROW"
    [] op = "DeleteRow" -> "DELETE_ROW"

Mutating ==
  {"CreateTable", "DropTable", "AddColumn", "RenameColumn", "DropColumn",
   "InsertRow", "UpdateRow", "DeleteRow"}

Succeeded(r) == r.status \in {200, 201}

\* C16: a mutating operation (create/drop table, add/rename/drop column,
\* insert/update/delete row) answered with success appends exactly one activity
\* record, of the operation's kind, for the caller and the affected logical table,
\* carrying the row identifier for a row operation and the changed column names
\* for an update; a mutating operation answered with an error appends none.
C16_OneRecordPerSuccessfulMutation ==
  [][req'.op \in Mutating =>
       IF Succeeded(resp')
       THEN /\ Len(log') = Len(log) + 1
            /\ SubSeq(log', 1, Len(log)) = log
            /\ LET rec == log'[Len(log')]
               IN /\ rec.user = req'.user
                  /\ rec.action = ActionOf(req'.op)
                  /\ <<rec.user, rec.table_name>> \in
                       (IF req'.op = "CreateTable" THEN DOMAIN tables' \ DOMAIN tables
                        ELSE DOMAIN tables)
                  /\ req'.op # "CreateTable" => rec.table_name = req'.table
                  /\ req'.op = "InsertRow" => rec.metadata.row_id = resp'.id
                  /\ req'.op \in {"UpdateRow", "DeleteRow"} =>
                       rec.metadata.row_id = req'.row_id
                  /\ req'.op = "UpdateRow" => rec.metadata.updated_fields = DOMAIN req'.data
       ELSE log' = log]_vars

\* the log's last three records are a table creation, a row insert carrying the
\* new row's identifier and an update of that row carrying the changed column
C16_Witness ==
  /\ Len(log) = 3
  /\ log[1].action = "CREATE_TABLE"
  /\ log[2].action = "INSERT_ROW" /\ log[2].metadata.row_id = 1
  /\ log[3].action = "UPDATE_ROW"
  /\ log[3].metadata = [row_id |-> 1, updated_fields |-> {<<"b">>}]
  /\ req.op = "UpdateRow" /\ resp.status = 200
  /\ \E rn \in DOMAIN db : \E i \in 1..Len(db[rn].rows) : 3 \in Range(db[rn].rows[i].vals)

\* no row of the caller's table has the identifier as its rowid or as the value of
\* its declared primary key
MatchesNoRow(ut, d, id) ==
  /\ ut.real_name \in DOMAIN d
  /\ LET t == d[ut.real_name]
         names == ColNames(t.cols)
     IN \A i \in 1..Len(t.rows) :
          /\ t.rows[i].rowid # id
          /\ \A k \in 1..Len(names) : t.cols[k].pk => t.rows[i].vals[k] # id

\* C17: an update (of declared columns, with a non-empty body) or a delete of a
\* row of an existing table that matches zero rows is answered with success
\* carrying an affected-row count of 0, on the dashboard and on v1, and leaves the
\* table contents unchanged.
C17_ZeroRowsIsSuccess ==
  [][(/\ req'.op \in {"UpdateRow", "DeleteRow"}
      /\ <<req'.user, req'.table>> \in DOMAIN tables
      /\ MatchesNoRow(tables[<<req'.user, req'.table>>], db, req'.row_id)
      /\ req'.op = "UpdateRow" =>
           /\ DOMAIN req'.data # {}
           /\ DOMAIN req'.data \subseteq
                Range(ColNames(db[tables[<<req'.user, req'.table>>].real_name].cols)))
     => (/\ Succeeded(resp')
         /\ "affected" \in DOMAIN resp'
         /\ resp'.affected = 0
         /\ db' = db)]_vars

(***************************************************************************)
(* Single-row fetch: one owner creates a table with or without a declared  *)
(* primary key, inserts rows through v1 and fetches single rows.           *)
(***************************************************************************)
MaxFetchLog == 3

FetchData ==
  { (<<"a">> :> 1) @@ (<<"b">> :> 2), (<<"a">> :> 2) @@ (<<"b">> :> 2), (<<"b">> :> 3) }

FetchRowIds == {1, 2, 3}

CanLogFetch == Len(log) < MaxFetchLog

FetchDashboardCreate ==
  CanLogFetch /\ \E cols \in ActivityColumnLists : CreateTable(1, <<"t">>, cols)

FetchApiCreate ==
  CanLogFetch /\ \E cols \in ActivityColumnLists : ApiCreateTable(1, <<"t">>, cols)

FetchInsert == CanLogFetch /\ \E data \in FetchData : InsertRow("v1", 1, <<"t">>, data)

FetchGet == \E id \in FetchRowIds : ApiGetRow(1, <<"t">>, id)

NextFetch ==
  \/ FetchDashboardCreate
  \/ FetchApiCreate
  \/ FetchInsert
  \/ FetchGet

SpecFetch == Init /\ [][NextFetch]_vars

\* C18: on SQLite and on PostgreSQL, for tables with and without a declared
\* primary key, fetching through v1 the single row whose identifier the insert
\* answered just before returned yields a row whose values for the inserted
\* columns equal the inserted values.
C18_InsertThenGetReturnsInserted ==
  [][(/\ req.op = "InsertRow" /\ resp.status = 201
      /\ req'.op = "GetRow"
      /\ req'.user = req.user /\ req'.table = req.table
      /\ req'.row_id = resp.id)
     => (/\ resp'.status = 200
         /\ \A c \in DOMAIN req.data : resp'.row[c] = req.data[c])]_vars

(***************************************************************************)
(* Transfer: one owner creates tables t and p, inserts rows into t,        *)
(* exports t and imports the exported rows into p.                         *)
(***************************************************************************)
MaxTransferLog == 5

TransferColumnLists ==
  { <<Col(<<"a">>, "INTEGER", TRUE, FALSE, FALSE), Col(<<"b">>, "TEXT", FALSE, FALSE, FALSE)>>,
    <<Col(<<" ", "a">>, "TEXT", FALSE, FALSE, FALSE), Col(<<"b">>, "TEXT", FALSE, FALSE, FALSE)>> }

TransferData == { (<<"a">> :> 1) @@ (<<"b">> :> 2), (<<"a">> :> 2) @@ (<<"b">> :> 1) }

\* the request body built from an export's rows
AsImport(rows) == [i \in 1..Len(rows) |-> JsonObject(rows[i])]

CanLogTransfer == Len(log) < MaxTransferLog

TransferCreate ==
  CanLogTransfer /\ \E n \in {<<"t">>, <<"p">>}, cols \in TransferColumnLists :
                      CreateTable(1, n, cols)

TransferInsert ==
  CanLogTransfer /\ \E data \in TransferData : InsertRow("dashboard", 1, <<"t">>, data)

TransferExport == CanLogTransfer /\ ExportTable(1, <<"t">>)

TransferImport ==
  /\ CanLogTransfer
  /\ req.op = "Export" /\ resp.status = 200
  /\ ImportRows(1, <<"p">>, AsImport(resp.rows))

NextTransfer ==
  \/ TransferCreate
  \/ TransferInsert
  \/ TransferExport
  \/ TransferImport

SpecTransfer == Init /\ [][NextTransfer]_vars

\* the stored values of a table's rows in scan order, without the engine's rowid
StoredValues(t) ==
  LET order == ScanOrder(t) IN [i \in 1..Len(order) |-> t.rows[order[i]].vals]

\* C19: importing the rows a JSON export of a table answered just before into an
\* empty table of the same schema yields a table whose rows equal the source
\* table's rows one for one (the engine's rowid aside), and every exported row
\* mapping pairs each declared column name with that column's own value.
C19_ExportImportRoundTrip ==
  [][(/\ req.op = "Export" /\ resp.status = 200
      /\ req'.op = "Import" /\ req'.data = AsImport(resp.rows)
      /\ <<req'.user, req'.table>> \in DOMAIN tables
      /\ req'.table # req.table
      /\ tables[<<req'.user, req'.table>>].schema = tables[<<req.user, req.table>>].schema
      /\ db[tables[<<req'.user, req'.table>>].real_name].rows = <<>>)
     => LET src == db[tables[<<req.user, req.table>>].real_name]
            dst == db'[tables[<<req'.user, req'.table>>].real_name]
            declared == SchemaNames(tables[<<req.user, req.table>>].schema)
        IN /\ StoredValues(dst) = StoredValues(src)
           /\ \A i \in 1..Len(resp.rows) : \A c \in Range(declared) :
                /\ c \in Range(ColNames(src.cols))
                /\ resp.rows[i][c] = StoredValues(src)[i][IndexOf(ColNames(src.cols), c)]]_vars

\* the same round trip between tables whose stored column names are the physical
\* ones
C19_RoundTripOfConsistentTables ==
  [][(/\ req.op = "Export" /\ resp.status = 200
      /\ req'.op = "Import" /\ req'.data = AsImport(resp.rows)
      /\ <<req'.user, req'.table>> \in DOMAIN tables
      /\ req'.table # req.table
      /\ tables[<<req'.user, req'.table>>].schema = tables[<<req.user, req.table>>].schema
      /\ SchemaNames(tables[<<req.user, req.table>>].schema)
           = ColNames(db[tables[<<req.user, req.table>>].real_name].cols)
      /\ db[tables[<<req'.user, req'.table>>].real_name].rows = <<>>)
     => StoredValues(db'[tables[<<req'.user, req'.table>>].real_name])
          = StoredValues(db[tables[<<req.user, req.table>>].real_name])]_vars

(***************************************************************************)
(* Import: one owner creates a table and imports lists of up to MaxImport  *)
(* elements, in which rows that insert, rows the engine refuses and        *)
(* elements that are no objects are mixed.                                 *)
(***************************************************************************)
MaxImportLog == 2

MaxImport == 12

GoodRow(k) == JsonObject((<<"a">> :> k) @@ (<<"b">> :> k))

UnknownColumnRow == JsonObject(<<"z">> :> 1)

ImportLists ==
  {<<>>} \cup UNION {
    { [i \in 1..n |-> UnknownColumnRow],
      [i \in 1..n |-> IF i = 1 THEN GoodRow(1) ELSE JsonScalar],
      [i \in 1..n |-> IF i = n THEN GoodRow(n) ELSE UnknownColumnRow],
      [i \in 1..n |-> GoodRow(1)],
      [i \in 1..n |-> IF i % 2 = 1 THEN GoodRow(i) ELSE JsonScalar] } : n \in 1..MaxImport }

CanLogImport == Len(log) < MaxImportLog

ImportCreate ==
  CanLogImport /\ \E cols \in ActivityColumnLists : CreateTable(1, <<"t">>, cols)

ImportList == CanLogImport /\ \E data \in ImportLists : ImportRows(1, <<"t">>, data)

NextImport ==
  \/ ImportCreate
  \/ ImportList

SpecImport == Init /\ [][NextImport]_vars

\* the i-th element of an imported list is a row the table t takes: an object
\* with members, all of them columns of t, whose value for a key column of t is
\* held neither by a row of t nor by an earlier element of the list
Acceptable(t, data, i) ==
  LET names == ColNames(t.cols)
      f == data[i].fields
  IN /\ data[i].object
     /\ DOMAIN f # {}
     /\ DOMAIN f \subseteq Range(names)
     /\ \A k \in 1..Len(names) :
          (t.cols[k].pk /\ names[k] \in DOMAIN f) =>
            /\ \A r \in 1..Len(t.rows) : t.rows[r].vals[k] # f[names[k]]
            /\ \A j \in 1..(i - 1) :
                 ~(/\ data[j].object
                   /\ names[k] \in DOMAIN data[j].fields
                   /\ data[j].fields[names[k]] = f[names[k]])

\* the positions of a list's elements that the table does not take, in order
Refused(t, data) ==
  LET bad == {i \in 1..Len(data) : ~Acceptable(t, data, i)}
  IN [j \in 1..Cardinality(bad) |->
       CHOOSE i \in bad : Cardinality({h \in bad : h < i}) = j - 1]

\* C20: an import of a non-empty list of n rows into an existing table answers
\* imported + total_errors = n, lists exactly the first min(10, total_errors)
\* messages, adds exactly `imported` rows to the table, inserts every row the
\* table takes whatever failed before it, and answers 201 if and only if
\* imported >= 1, otherwise 400.
C20_ImportAccounting ==
  [][(/\ req'.op = "Import"
      /\ <<req'.user, req'.table>> \in DOMAIN tables
      /\ req'.data # <<>>)
     => LET rn == tables[<<req'.user, req'.table>>].real_name
            data == req'.data
            refused == Refused(db[rn], data)
            shown == Min(10, resp'.total_errors)
        IN /\ resp'.imported + resp'.total_errors = Len(data)
           /\ resp'.total_errors = Len(refused)
           /\ Len(resp'.errors) = shown
           /\ \A j \in 1..shown : resp'.errors[j].row = refused[j] - 1
           /\ Len(db'[rn].rows) = Len(db[rn].rows) + resp'.imported
           /\ \A i \in 1..Len(data) :
                Acceptable(db[rn], data, i) =>
                  \E r \in 1..Len(db'[rn].rows) :
                    \A k \in 1..Len(db[rn].cols) :
                      db[rn].cols[k].name \in DOMAIN data[i].fields =>
                        db'[rn].rows[r].vals[k] = data[i].fields[db[rn].cols[k].name]
           /\ resp'.status = (IF resp'.imported >= 1 THEN 201 ELSE 400)]_vars

\* an import of twelve elements has been answered 201: the engine refused the
\* first eleven, ten messages are listed, and the twelfth row is in the table
C20_Witness ==
  /\ req.op = "Import" /\ Len(req.data) = 12
  /\ resp.status = 201
  /\ resp.imported = 1 /\ resp.total_errors = 11 /\ Len(resp.errors) = 10
  /\ \E rn \in DOMAIN db :
       /\ Len(db[rn].rows) = 1
       /\ db[rn].rows[1].vals = <<12, 12>>

(***************************************************************************)
(* API-key lifecycle: two owners create, deactivate, reactivate and delete *)
(* keys, and v1 requests present keys.                                     *)
(***************************************************************************)
MaxKeys == 2

MaxKeyUses == 2

\* the headers presented: none, every key that can have been issued, one that
\* never is, and a value without the sk_ prefix
Headers ==
  {NoHeader, [prefix |-> "pk_", token |-> 1]} \cup {generate_key(n) : n \in 1..(MaxKeys + 1)}

KeyNames == {<<"k">>, <<" ">>}

KeysCreate == issued < MaxKeys /\ \E u \in Users, name \in KeyNames : CreateKey(u, name)

KeysPatch ==
  \E u \in Users, id \in 1..MaxKeys, given \in BOOLEAN, is_active \in BOOLEAN :
    PatchKey(u, id, given, is_active)

KeysDelete == \E u \in Users, id \in 1..MaxKeys : DeleteKey(u, id)

KeysAuthenticate ==
  \E h \in Headers :
    /\ clock < MaxKeyUses \/ authenticate(h).key = Null
    /\ ApiKeyAuthenticate(h)

NextKeys ==
  \/ KeysCreate
  \/ KeysPatch
  \/ KeysDelete
  \/ KeysAuthenticate

SpecKeys == Init /\ [][NextKeys]_vars

\* the key authenticator let the request through as a user
Authenticated(r) == r.status = 0 /\ "user" \in DOMAIN r

\* C21: through create, deactivate, reactivate and delete of API keys,
\* presenting a raw key authenticates if and only if a key row whose stored hash is
\* the raw key's hash exists and is active, and then as that row's owner; a key
\* just created authenticates as its creator, a key just deactivated does not
\* authenticate, a key just reactivated does, and the raw key of a deleted row
\* never authenticates again.
C21_KeyLifecycle ==
  [][/\ \A id \in DOMAIN api_keys' :
          id <= issued' /\ api_keys'[id].key_hash = hash_key(generate_key(id))
     /\ req'.op = "Authenticate" =>
          LET raw == req'.header
              matches == {id \in DOMAIN api_keys :
                            api_keys[id].key_hash = hash_key(raw) /\ api_keys[id].is_active}
          IN /\ Authenticated(resp') <=> matches # {}
             /\ Authenticated(resp') =>
                  resp'.auth \in matches /\ resp'.user = api_keys[resp'.auth].user
             /\ (req.op = "CreateKey" /\ resp.status = 201 /\ raw = resp.key) =>
                  Authenticated(resp') /\ resp'.user = req.user
             /\ (req.op = "PatchKey" /\ resp.status = 200 /\ req.given /\ ~req.is_active
                   /\ raw = generate_key(req.key_id)) => ~Authenticated(resp')
             /\ (req.op = "PatchKey" /\ resp.status = 200 /\ req.given /\ req.is_active
                   /\ raw = generate_key(req.key_id)) =>
                  Authenticated(resp') /\ resp'.user = req.user
             /\ (raw.prefix = "sk_" /\ raw.token <= issued /\ raw.token \notin DOMAIN api_keys)
                  => ~Authenticated(resp')]_vars

\* the only key ever issued authenticated twice and has since been deleted; it has
\* just been presented and the request was refused
C21_Witness ==
  /\ issued = 1 /\ clock = 2
  /\ api_keys = <<>>
  /\ req.op = "Authenticate" /\ req.header = generate_key(1)
  /\ resp.status = 401

(***************************************************************************)
(* Accounts: two owners create tables and keys and present keys, while     *)
(* accounts are disabled, enabled and deleted.                             *)
(***************************************************************************)
MaxAccountLog == 2

AccountColumns == <<Col(<<"a">>, "INTEGER", TRUE, FALSE, FALSE)>>

AccountsCreateTable ==
  /\ Len(log) < MaxAccountLog
  /\ \E u \in Users : IsAuthenticated(u) /\ CreateTable(u, <<"t">>, AccountColumns)

AccountsDropTable ==
  /\ Len(log) < MaxAccountLog
  /\ \E u \in Users : IsAuthenticated(u) /\ DropTable(u, <<"t">>)

AccountsCreateKey == issued < MaxKeys /\ \E u \in Users : CreateKey(u, <<"k">>)

AccountsPatchKey ==
  \E u \in Users, id \in 1..MaxKeys, is_active \in BOOLEAN : PatchKey(u, id, TRUE, is_active)

AccountsAuthenticate ==
  \E h \in Headers :
    /\ clock < MaxKeyUses \/ authenticate(h).key = Null
    /\ ApiKeyAuthenticate(h)

AccountsSetActive == \E u \in Users, is_active \in BOOLEAN : SetAccountActive(u, is_active)

AccountsDelete == \E u \in Users : DeleteAccount(u)

NextAccounts ==
  \/ AccountsCreateTable
  \/ AccountsDropTable
  \/ AccountsCreateKey
  \/ AccountsPatchKey
  \/ AccountsAuthenticate
  \/ AccountsSetActive
  \/ AccountsDelete

SpecAccounts == Init /\ [][NextAccounts]_vars

\* C22: a v1 request whose key header is present but invalid, inactive or owned
\* by a disabled account is refused as an authentication failure and leaves the
\* descriptors, the physical tables, the activity log and every key row, its
\* last-used time included, as they were; a request without the header is not
\* failed by the key authenticator.
C22_RefusedKeyTouchesNothing ==
  [][req'.op = "Authenticate" =>
       /\ req'.header = NoHeader => ~resp'.failed
       /\ (req'.header # NoHeader /\ ~Authenticated(resp')) =>
            /\ resp'.status = 401 /\ resp'.failed
            /\ tables' = tables /\ db' = db /\ log' = log
            /\ api_keys' = api_keys]_vars

\* C23: an activity record once written is never changed and never removed: the
\* log of every state is a prefix of the log of the next.
C23_LogAppendOnly ==
  [][Len(log') >= Len(log) /\ SubSeq(log', 1, Len(log)) = log]_vars

(***************************************************************************)
(* Table creation: two owners create tables from column lists the engine   *)
(* accepts and from lists it refuses (a repeated column name), and drop    *)
(* them.                                                                   *)
(***************************************************************************)
MaxCreateLog == 2

CreateColumnLists ==
  { <<Col(<<"a">>, "INTEGER", TRUE, FALSE, FALSE)>>,
    <<Col(<<"a">>, "TEXT", FALSE, FALSE, FALSE), Col(<<"a">>, "TEXT", FALSE, FALSE, FALSE)>>,
    <<Col(<<"a">>, "TEXT", FALSE, FALSE, FALSE), Col(<<"a", " ">>, "TEXT", FALSE, FALSE, FALSE)>>,
    <<Col(<<"a">>, "INTEGER", TRUE, FALSE, FALSE), Col(<<"b">>, "INTEGER", TRUE, FALSE, FALSE)>> }

CanLogCreate == Len(log) < MaxCreateLog

CreateDashboard ==
  CanLogCreate /\ \E u \in Users, cols \in CreateColumnLists : CreateTable(u, <<"t">>, cols)

CreateApi ==
  CanLogCreate /\ \E u \in Users, cols \in CreateColumnLists : ApiCreateTable(u, <<"t">>, cols)

CreateDrop == CanLogCreate /\ \E u \in Users : DropTable(u, <<"t">>)

NextCreate ==
  \/ CreateDashboard
  \/ CreateApi
  \/ CreateDrop

SpecCreate == Init /\ [][NextCreate]_vars

\* the request's CREATE TABLE statement was sent and the engine refused it
CreateRefused(stmts) ==
  \E i \in 1..Len(stmts) : stmts[i].verb = "CREATE TABLE" /\ ~stmts[i].ok

\* C24: a CreateTable whose CREATE TABLE statement fails persists no descriptor
\* and writes no activity record, and a descriptor appears only in a step whose
\* CREATE TABLE of that descriptor's physical table succeeded.
C24_DescriptorOnlyAfterPhysicalCreate ==
  [][/\ (req'.op = "CreateTable" /\ CreateRefused(executed')) =>
          /\ tables' = tables
          /\ log' = log
          /\ resp'.status = 500
     /\ \A k \in DOMAIN tables' \ DOMAIN tables :
          /\ req'.op = "CreateTable"
          /\ \E i \in 1..Len(executed') :
               /\ executed'[i].verb = "CREATE TABLE"
               /\ executed'[i].ok
               /\ executed'[i].table = tables'[k].real_name
          /\ tables'[k].real_name \in DOMAIN db' \ DOMAIN db]_vars

\* owner 2 holds a table while owner 1's creation has just been refused by the
\* engine: owner 1 has no descriptor and the log holds owner 2's record only
C24_Witness ==
  /\ req.op = "CreateTable" /\ req.user = 1
  /\ resp.status = 500
  /\ CreateRefused(executed)
  /\ DOMAIN tables = {<<2, <<"t">>>>}
  /\ Len(log) = 1 /\ log[1].user = 2

(***************************************************************************)
(* Row identity resolution, checked under SpecActivity                     *)
(***************************************************************************)
\* the schema declares a primary key
DeclaresPk(schema) == \E i \in 1..Len(schema) : Flag(schema[i], "pk")

\* C25: an update or delete by a numeric id, on the dashboard and on v1, first
\* tries the predicate on rowid where the engine has one, and retries on the
\* declared primary key only if that attempt affected no row and a primary key
\* is declared and is not rowid; with no declared primary key there is no retry;
\* where the engine has no rowid the declared primary key is used directly.
C25_RowIdentityResolution ==
  [][(/\ req'.op \in {"UpdateRow", "DeleteRow"}
      /\ <<req'.user, req'.table>> \in DOMAIN tables
      /\ req'.op = "UpdateRow" => DOMAIN req'.data # {})
     => LET ut == tables[<<req'.user, req'.table>>]
            pk == PkCol(ut.schema)
            first == executed'[1]
            missed == Targets(db[ut.real_name], RowidKey, req'.row_id) = {}
        IN /\ Len(executed') >= 1
           /\ IF engine = "postgresql"
              THEN /\ DeclaresPk(ut.schema) => first.cols = <<pk>>
                   /\ Len(executed') = 1
              ELSE /\ first.cols = <<RowidKey>>
                   /\ Len(executed') <= 2
                   /\ (Len(executed') = 2) <=>
                        (first.ok /\ missed /\ DeclaresPk(ut.schema) /\ pk # RowidKey)
                   /\ Len(executed') = 2 => executed'[2].cols = <<pk>>]_vars

(***************************************************************************)
(* Rebuild beside a table named ..._temp: one owner creates tables t and   *)
(* t_temp through v1, inserts rows and drops columns of t.                 *)
(***************************************************************************)
MaxTempLog == 4

TempTables == {<<"t">>, <<"t", "_", "t", "e", "m", "p">>}

TempColumns ==
  <<Col(<<"a">>, "INTEGER", FALSE, FALSE, FALSE), Col(<<"b">>, "TEXT", FALSE, FALSE, FALSE)>>

CanLogTemp == Len(log) < MaxTempLog

TempCreate == CanLogTemp /\ \E n \in TempTables : ApiCreateTable(1, n, TempColumns)

TempInsert ==
  CanLogTemp /\ \E n \in TempTables : InsertRow("v1", 1, n, (<<"a">> :> 1) @@ (<<"b">> :> 2))

TempDropColumn == CanLogTemp /\ \E c \in {<<"a">>, <<"b">>} : ApiDropColumn(1, <<"t">>, c)

NextTemp ==
  \/ TempCreate
  \/ TempInsert
  \/ TempDropColumn

SpecTemp == InitRebuild /\ [][NextTemp]_vars

\* the statements of the request handled last went into the rebuild fallback: the
\* native DROP COLUMN failed and CREATE TABLE of the temp table was sent
EnteredRebuild(stmts) ==
  /\ Len(stmts) >= 2
  /\ stmts[1].verb = "DROP COLUMN" /\ ~stmts[1].ok
  /\ stmts[2].verb = "CREATE TABLE"

\* C26: a v1 DropColumn of table T that goes through the rebuild leaves the
\* physical table of every other logical table as it was, and succeeds whenever
\* the column exists and is not the last one, also when the owner has a logical
\* table named T_temp.
C26_RebuildLeavesOtherTablesAlone ==
  [][(/\ req'.op = "DropColumn" /\ req'.api = "v1"
      /\ <<req'.user, req'.table>> \in DOMAIN tables
      /\ EnteredRebuild(executed')
      /\ LET ut == tables[<<req'.user, req'.table>>]
         IN /\ req'.name \in Range(SchemaNames(ut.schema))
            /\ Len(ut.schema) > 1
            /\ ut.real_name \in DOMAIN db
            /\ SchemaNames(ut.schema) = ColNames(db[ut.real_name].cols))
     => /\ resp'.status = 200
        /\ \A k \in DOMAIN tables \ {<<req'.user, req'.table>>} :
             /\ tables[k].real_name \in DOMAIN db =>
                  (tables[k].real_name \in DOMAIN db'
                     /\ db'[tables[k].real_name] = db[tables[k].real_name])
             /\ \A i \in 1..Len(executed') :
                  executed'[i].ok => executed'[i].table # tables[k].real_name]_vars

(***************************************************************************)
(* Concurrent column requests: PublicTableColumnsView.post in two steps,   *)
(* the descriptor load with the validation, then the statement with the    *)
(* descriptor save, so that two workers can interleave on one table.       *)
(***************************************************************************)
MaxConcurrentLog == 3

\* what a worker remembers of a request that has answered
Answered(op, u, name, col_name, status) ==
  [done |-> TRUE, op |-> op, user |-> u, table |-> name, name |-> col_name, status |-> status]

\* user_table = UserTable.objects.get(...) and the checks made on that copy
ColumnsPostLoad(w, u, name, col_name) ==
  LET key == <<u, name>>
      refused == IF key \notin DOMAIN tables THEN 404
                 ELSE IF col_name = <<>> THEN 400
                 ELSE IF ~IsIdentifier(col_name) THEN 400
                 ELSE IF ApiColumnExists(tables[key].schema, col_name) THEN 400
                 ELSE 0
  IN /\ inflight[w].done
     /\ UNCHANGED <<engine, auth>>
     /\ IF refused # 0
        THEN /\ req' = [op |-> "AddColumn", api |-> "v1", user |-> u, table |-> name,
                        name |-> col_name]
             /\ Reject(refused)
             /\ inflight' = [inflight EXCEPT ![w] = Answered("AddColumn", u, name, col_name,
                                                             refused)]
        ELSE /\ inflight' = [inflight EXCEPT ![w] =
                               [done |-> FALSE, op |-> "AddColumn", user |-> u, table |-> name,
                                name |-> col_name, user_table |-> tables[key]]]
             /\ UNCHANGED <<tables, db, log, req, resp, executed>>

\* cursor.execute(sql); user_table.schema.append(...);
\* user_table.save(update_fields=['schema']); log_api_activity(...)
ColumnsPostWrite(w) ==
  /\ ~inflight[w].done
  /\ LET f == inflight[w]
         key == <<f.user, f.table>>
         ut == f.user_table
         r == SqlAddColumn(db, ut.real_name, PlainColumnDef(f.name, "TEXT"))
         stmts == <<Stmt("ADD COLUMN", ut.real_name, <<f.name>>, r.ok)>>
         saved == r.ok /\ key \in DOMAIN tables
     IN /\ req' = [op |-> "AddColumn", api |-> "v1", user |-> f.user, table |-> f.table,
                   name |-> f.name]
        /\ UNCHANGED <<engine, auth>>
        /\ inflight' = [inflight EXCEPT ![w] =
                          Answered("AddColumn", f.user, f.table, f.name,
                                   IF saved THEN 200 ELSE 500)]
        /\ IF ~saved THEN StorageError(stmts, r.db)
           ELSE SaveSchema(key, ApiAppended(ut.schema, f.name), r.db, stmts,
                           log_api_activity(f.user, "ADD_COLUMN", f.table, NoMetadata), 200)

ConcurrentColumns == {<<"b">>, <<"c">>, <<"d">>}

CanLogConcurrent == Len(log) < MaxConcurrentLog

ConcurrentCreate ==
  CanLogConcurrent
    /\ ApiCreateTable(1, <<"t">>, <<Col(<<"a">>, "INTEGER", FALSE, FALSE, FALSE)>>)

ConcurrentLoad ==
  CanLogConcurrent
    /\ \E w \in Workers, c \in ConcurrentColumns : ColumnsPostLoad(w, 1, <<"t">>, c)

ConcurrentWrite == \E w \in Workers : ColumnsPostWrite(w)

NextConcurrent ==
  \/ ConcurrentCreate
  \/ ConcurrentLoad
  \/ ConcurrentWrite

SpecConcurrent == Init /\ [][NextConcurrent]_vars

MaxKeyedLog == 4

KeyedColumns ==
  <<Col(<<"a">>, "TEXT", TRUE, FALSE, FALSE), Col(<<"b">>, "TEXT", FALSE, FALSE, FALSE)>>

KeyedData == {(<<"a">> :> 1) @@ (<<"b">> :> 5), (<<"a">> :> 2) @@ (<<"b">> :> 5)}

KeyedRowIds == {1, 2}

CanLogKeyed == Len(log) < MaxKeyedLog

KeyedCreate == CanLogKeyed /\ CreateTable(1, <<"t">>, KeyedColumns)

KeyedInsert == CanLogKeyed /\ \E data \in KeyedData : InsertRow("dashboard", 1, <<"t">>, data)

KeyedUpdate == CanLogKeyed /\ \E id \in KeyedRowIds : UpdateRow(1, <<"t">>, id, (<<"b">> :> 9))

KeyedDelete == CanLogKeyed /\ \E id \in KeyedRowIds : DeleteRow(1, <<"t">>, id)

NextKeyed ==
  \/ KeyedCreate
  \/ KeyedInsert
  \/ KeyedUpdate
  \/ KeyedDelete

SpecKeyed == Init /\ [][NextKeyed]_vars

\* the rows of table t whose declared primary key is not x, as stored
RowsKeyedOtherThan(t, pk_col, x) ==
  LET k == IndexOf(ColNames(t.cols), pk_col)
  IN {t.rows[i] : i \in {j \in 1..Len(t.rows) : t.rows[j].vals[k] # x}}

MaxErrorLog == 3

LongName == [i \in 1..(TableNameMaxLength + 1) |-> "t"]

ErrorTables == {<<"t">>, LongName}

ErrorColumns == <<Col(<<"a">>, "INTEGER", FALSE, FALSE, FALSE)>>

CanLogError == Len(log) < MaxErrorLog

ErrorDashboardCreate == CanLogError /\ \E n \in ErrorTables : CreateTable(1, n, ErrorColumns)

ErrorApiCreate == CanLogError /\ \E n \in ErrorTables : ApiCreateTable(1, n, ErrorColumns)

ErrorAddColumn ==
  CanLogError /\ \E n \in ErrorTables, c \in {<<"a">>, <<"b">>, <<"c">>} : ApiAddColumn(1, n, c)

ErrorDropColumn ==
  CanLogError /\ \E n \in ErrorTables, c \in {<<"a">>, <<"b">>} : ApiDropColumn(1, n, c)

ErrorDropTable == CanLogError /\ \E n \in ErrorTables : DropTable(1, n)

NextError ==
  \/ ErrorDashboardCreate
  \/ ErrorApiCreate
  \/ ErrorAddColumn
  \/ ErrorDropColumn
  \/ ErrorDropTable

SpecError == Init /\ [][NextError]_vars

SchemaOps == {"CreateTable", "DropTable", "AddColumn", "RenameColumn", "DropColumn"}

MaxIsolationLog == 4

IsolationColumns == <<Col(<<"a">>, "INTEGER", FALSE, FALSE, FALSE)>>

IsolationNames == {<<"x">>, Injected(<<"x">>, RealName(2, <<"t">>))}

CanLogIsolation == Len(log) < MaxIsolationLog

IsolationDashboardCreate ==
  CanLogIsolation /\ \E u \in Users : CreateTable(u, <<"t">>, IsolationColumns)

IsolationApiCreate ==
  CanLogIsolation /\ \E n \in IsolationNames : ApiCreateTable(1, n, IsolationColumns)

IsolationInsert ==
  CanLogIsolation /\ \E u \in Users, n \in {<<"t">>, <<"x">>} :
                       InsertRow("v1", u, n, (<<"a">> :> 7))

IsolationDropTable == CanLogIsolation /\ \E u \in Users : DropTable(u, <<"t">>)

NextIsolation ==
  \/ IsolationDashboardCreate
  \/ IsolationApiCreate
  \/ IsolationInsert
  \/ IsolationDropTable

SpecIsolation == Init /\ [][NextIsolation]_vars

\* the physical tables a statement reads or writes
Touched(stmt) ==
  {stmt.table} \cup (IF "selected" \in DOMAIN stmt THEN stmt.selected ELSE {})

\* C30: owner isolation.  Every descriptor's physical name is "u" + owner id +
\* "_" + logical name and stays what it was at creation, descriptors with
\* different (owner, logical name) have different physical names, and no
\* statement a request of principal P runs reads or modifies the physical table
\* of a descriptor owned by someone else.
C30_OwnerIsolation ==
  [][/\ \A k \in DOMAIN tables' :
          /\ tables'[k].real_name = RealName(k[1], k[2])
          /\ k \in DOMAIN tables => tables'[k].real_name = tables[k].real_name
     /\ \A k1, k2 \in DOMAIN tables' :
          k1 # k2 => tables'[k1].real_name # tables'[k2].real_name
     /\ "user" \in DOMAIN req' =>
          \A i \in 1..Len(executed') :
            executed'[i].ok =>
              \A k \in DOMAIN tables :
                k[1] # req'.user => tables[k].real_name \notin Touched(executed'[i])]_vars


====
